---- MODULE Spec2Model ----
(***************************************************************************)
(* Browser acquisition policy of the desktop GUI agent:                    *)
(* SmartBrowserManager (packages/agent-infra/browser/src/                   *)
(* smart-browser-manager.ts).                                               *)
(*                                                                         *)
(* The manager holds at most one browser handle and a flag telling whether *)
(* the handle is attached to an external (user-launched) browser.  Every   *)
(* public method is one action; what the method awaits (the debug-port     *)
(* fetch, the liveness probe, launch, close, the onBrowserLaunch callback) *)
(* is an input of the action whose possible values are limited by the      *)
(* state of the browser processes.  Each action leaves in lastCall what    *)
(* the call was given, what it invoked (in order) and what it returned.    *)
(*                                                                         *)
(* Tab session policy: TabSessionManager (tab-session-manager.ts), in the  *)
(* same style.  It tracks one session page and the last navigated target;  *)
(* SpecTab is its state machine over a browser whose tabs open, die and    *)
(* change focus; SpecDecide evaluates shouldCreateNewTab over a set of URL *)
(* strings.  Strings are sequences of pieces, so that prefixing, matching  *)
(* and URL parsing are computed.  SpecRace steps two overlapping           *)
(* getOrCreateSessionPage calls from await to await.                       *)
(*                                                                         *)
(* The agent route of the desktop application (runAgent, pauseRun,         *)
(* resumeRun, stopRun, addPendingMessage over the application store and    *)
(* its background loop) is SpecAgent, FairAgent with the scheduling the    *)
(* liveness statements rest on; HybridOperator (agent/hybridOperator.ts)   *)
(* is SpecHybrid, one action per method.                                   *)
(***************************************************************************)
EXTENDS Integers, Sequences, FiniteSets, TLC

\* ------------------------------------------------------------------ bounds
\* Background agent loops that may exist at once, and messages ever queued.
MaxLoops == 2
MaxQueued == 2
\* Number of tabs the driven browser may have opened in one behaviour.
MaxPages == 2

\* Number of browser objects (new RemoteBrowser / new LocalBrowser) the
\* manager may construct in one behaviour.
MaxHandles == 2

\* ------------------------------------------------------------- conventions
\* this.browser = null; handle ids are 1..Len(handles)
Null == 0
\* the process behind the external endpoint http://127.0.0.1:<debugPort>
ExtProc == 0

\* What the fetch of /json/version can do.
\*   refused    : connection refused (fetch rejects)
\*   timeout    : the 1000 ms AbortController fires (fetch rejects)
\*   status_err : a response arrives with response.ok = false
\*   bad_body   : response.ok, but response.json() rejects
\*   null_body  : response.ok and the body is the JSON value null
\*   ok         : response.ok and a JSON object as body
ProbeResponses ==
    {"refused", "timeout", "status_err", "bad_body", "null_body", "ok"}

\* What getActivePage and evaluate can throw: an Error with one of these
\* messages, or a value that has no string message.
NoPagesMsg == "No pages available"
ClosedMsg == "Target closed"
EvalMsg == "Execution context was destroyed"
NonError == "<a value without a string message>"

\* errorMessage.includes('No pages available')
IncludesNoPages(msg) == msg = NoPagesMsg

VARIABLES
    browser,                \* this.browser (Null or a handle id)
    isConnectedToExternal,  \* this.isConnectedToExternal
    persistentMode,         \* this.persistentMode (config, default true)
    hasOnBrowserLaunch,     \* whether config.onBrowserLaunch is set
    handles,                \* every browser object constructed so far
    extStatus,              \* the user's own debug-enabled browser
    lastCall,               \* the last public method call and what it did
    \* TabSessionManager (tab-session-manager.ts)
    sessionPage,            \* this.sessionPage (Null or a page id)
    lastNavigatedUrl,       \* this.lastNavigatedUrl (NoUrl or a string)
    strategy,               \* this.strategy
    hasOnNewTabRequest,     \* whether options.onNewTabRequest is set
    pages,                  \* every tab of the browser the manager drives
    activeTab,              \* the browser's active tab (Null: no tab open)
    tabCall,                \* the last TabSessionManager call and what it did
    decided,                \* the last evaluation of a pure decision function
    \* the agent route (apps/ui-tars main process, ipcRoutes/agent)
    store,                  \* the application store (AppState)
    loops,                  \* every background agent loop: where it stands
    currentAgent,           \* GUIAgentManager.currentAgent is a GUIAgent
    queued,                 \* how many messages addPendingMessage was given
    agentCall,              \* the last request or loop step of the agent route
    \* HybridOperator (apps/ui-tars main process, agent/hybridOperator.ts)
    browserOperator,        \* this.browserOperator (Null or the operator)
    browserSessionActive,   \* this.browserSessionActive
    lastScreenParams,       \* whether this.lastScreenParams is set
    hybridCall,             \* the last HybridOperator call and what it did
    \* two getOrCreateSessionPage calls in flight on one TabSessionManager
    callers                 \* each call: the await it stands at, its locals

sbmVars == <<browser, isConnectedToExternal, persistentMode, hasOnBrowserLaunch,
             handles, extStatus, lastCall>>

tabVars == <<sessionPage, lastNavigatedUrl, strategy, hasOnNewTabRequest,
             pages, activeTab, tabCall>>

agentVars == <<store, loops, currentAgent, queued, agentCall>>

hybridVars == <<browserOperator, browserSessionActive, lastScreenParams,
                hybridCall>>

appVars == <<agentVars, hybridVars, callers>>

vars == <<browser, isConnectedToExternal, persistentMode, hasOnBrowserLaunch,
          handles, extStatus, lastCall, sessionPage, lastNavigatedUrl,
          strategy, hasOnNewTabRequest, pages, activeTab, tabCall, decided, appVars>>

\* ------------------------------------------------------------ environment
\* A browser object.  kind "remote" is a RemoteBrowser attached to process
\* proc (ExtProc or the id of a browser this manager launched); kind
\* "local" is a LocalBrowser, its own process.  conn: the object still has
\* a working connection.  status: for a local browser, what its process
\* looks like.  bound: the local process serves the debug port.
Handle(kind, proc, status, bound) ==
    [kind |-> kind, proc |-> proc, conn |-> TRUE, status |-> status,
     bound |-> bound]

\* A browser object whose launch failed, that was closed, or whose process
\* has exited: nothing about it matters any more but its kind.
Dead(kind) ==
    [kind |-> kind, proc |-> ExtProc, conn |-> FALSE, status |-> "dead",
     bound |-> FALSE]

Ids(hs) == 1..Len(hs)

\* The local process that serves the debug port, if any.
BoundLocals(hs) == {k \in Ids(hs) : hs[k].kind = "local" /\ hs[k].bound
                                      /\ hs[k].status # "dead"}

\* Something listens on the debug port.
Listening(hs, ext) == ext # "off" \/ BoundLocals(hs) # {}

\* The process a new RemoteBrowser reaches through the debug port.
PortOwner(hs, ext) ==
    IF ext # "off" THEN ExtProc
    ELSE IF BoundLocals(hs) # {} THEN CHOOSE k \in BoundLocals(hs) : TRUE
    ELSE ExtProc

\* What the process behind handle h looks like through h.
StatusOf(hs, ext, h) ==
    IF ~hs[h].conn THEN "dead"
    ELSE IF hs[h].kind = "local" THEN hs[h].status
    ELSE IF hs[h].proc = ExtProc THEN (IF ext = "off" THEN "dead" ELSE ext)
    ELSE hs[hs[h].proc].status

\* What browser.getActivePage() and page.evaluate() do on handle h:
\* "ok" or the message of the Error thrown (RemoteBrowser and LocalBrowser
\* reject with Error objects).
ProbeOf(hs, ext, h) ==
    LET s == StatusOf(hs, ext, h) IN
    CASE s = "live"  -> [gap |-> "ok", eval |-> "ok"]
      [] s = "empty" -> [gap |-> NoPagesMsg, eval |-> "ok"]
      [] s = "hung"  -> [gap |-> "ok", eval |-> EvalMsg]
      [] OTHER       -> [gap |-> ClosedMsg, eval |-> "ok"]

NoProbe == [gap |-> "none", eval |-> "none"]

\* The fetch answers the debug-port probe can get in the current state.
PossibleResponses(hs, ext) ==
    IF Listening(hs, ext) THEN ProbeResponses \ {"refused"}
    ELSE {"refused", "timeout"}

\* One thing a call invoked on its collaborators.
Ev(e, h, ok) == [ev |-> e, h |-> h, ok |-> ok]


\* A process exits: every connection to it breaks.
KillProc(env, p) ==
    [hs  |-> [k \in Ids(env.hs) |->
                IF k = p /\ p # ExtProc THEN Dead("local")
                ELSE IF env.hs[k].kind = "remote" /\ env.hs[k].conn
                        /\ env.hs[k].proc = p
                THEN Dead("remote")
                ELSE env.hs[k]],
     ext |-> IF p = ExtProc THEN "off" ELSE env.ext]

\* The effect on the browser objects and processes of one invocation.
\*   attach : new RemoteBrowser(...).launch()   launch : new LocalBrowser().launch()
\*   close  : browser.close(); kills tells whether closing a RemoteBrowser
\*            also ends the process it is attached to.
ApplyEvent(env, e, kills) ==
    CASE e.ev = "attach" ->
           [env EXCEPT !.hs = Append(env.hs,
               IF e.ok
               THEN Handle("remote", PortOwner(env.hs, env.ext), "n/a", FALSE)
               ELSE Dead("remote"))]
      [] e.ev = "launch" ->
           [env EXCEPT !.hs = Append(env.hs,
               IF e.ok
               THEN Handle("local", Len(env.hs) + 1, "live",
                           ~Listening(env.hs, env.ext))
               ELSE Dead("local"))]
      [] e.ev = "close" ->
           IF ~e.ok \/ ~env.hs[e.h].conn THEN env
           ELSE IF env.hs[e.h].kind = "local" THEN KillProc(env, e.h)
           ELSE IF kills THEN KillProc(env, env.hs[e.h].proc)
           ELSE [env EXCEPT !.hs[e.h] = Dead("remote")]
      [] OTHER -> env

RECURSIVE ApplyEvents(_, _, _)
ApplyEvents(env, evs, kills) ==
    IF evs = <<>> THEN env
    ELSE ApplyEvents(ApplyEvent(env, Head(evs), kills), Tail(evs), kills)

\* Number of handles a call constructs.
Constructs(evs) == Cardinality({i \in 1..Len(evs) : evs[i].ev \in {"attach", "launch"}})

\* ------------------------------------------------------ SmartBrowserManager
\* What a call leaves behind: the fields, whether it threw, and for
\* getOrCreateBrowser the GetBrowserResult it resolved to.
Res(b, ext, threw, mode, isNew, h, events) ==
    [browser |-> b, ext |-> ext, threw |-> threw, mode |-> mode,
     isNew |-> isNew, h |-> h, events |-> events]

\* What a predicate method does: throws, or returns value.
Ret(v) == [threw |-> FALSE, value |-> v]
Throws == [threw |-> TRUE, value |-> FALSE]

\* A bug: the status of the response is not looked at.
isDebugPortActive_NoStatusCheck(resp) ==
    IF resp \in {"refused", "timeout"} THEN Ret(FALSE)
    ELSE IF resp = "bad_body" THEN Ret(FALSE)
    ELSE IF resp = "null_body" THEN Ret(FALSE)
    ELSE Ret(TRUE)

\* isDebugPortActive(): fetch, response.ok, response.json(), data.Browser,
\* all inside try/catch.
isDebugPortActive(resp) ==
    IF resp \in {"refused", "timeout"} THEN Ret(FALSE)  \* fetch rejects: catch
    ELSE IF resp \in {"ok", "bad_body", "null_body"}    \* response.ok
         THEN (IF resp = "bad_body" THEN Ret(FALSE)     \* json() rejects: catch
               ELSE IF resp = "null_body" THEN Ret(FALSE) \* data.Browser: catch
               ELSE Ret(TRUE))
         ELSE Ret(FALSE)

\* A bug: an empty browser counts as dead.
isBrowserAlive_NoPagesDead(p) ==
    IF p.gap = "ok" /\ p.eval = "ok" THEN Ret(TRUE) ELSE Ret(FALSE)

\* isBrowserAlive(browser): p is what getActivePage and evaluate do.
isBrowserAlive(p) ==
    IF p.gap = "ok" /\ p.eval = "ok" THEN Ret(TRUE)
    ELSE LET e == IF p.gap # "ok" THEN p.gap ELSE p.eval
         IN  IF e = NonError THEN Throws        \* (e as Error).message.includes
             ELSE IF IncludesNoPages(e) THEN Ret(TRUE)
             ELSE Ret(FALSE)

\* A bug: the attached browser is not marked external.
connectToExisting_NoMark(b, ext, newId, attachOk) ==
    IF attachOk
    THEN [browser |-> newId, ext |-> ext, threw |-> FALSE, mode |-> "attached",
          isNew |-> TRUE, h |-> newId, events |-> <<Ev("attach", newId, TRUE)>>]
    ELSE [browser |-> b, ext |-> ext, threw |-> TRUE, mode |-> "none",
          isNew |-> FALSE, h |-> Null, events |-> <<Ev("attach", newId, FALSE)>>]

\* connectToExisting(): the fields are assigned only after launch resolved.
connectToExisting(b, ext, newId, attachOk) ==
    IF attachOk
    THEN Res(newId, TRUE, FALSE, "attached", TRUE, newId,
             <<Ev("attach", newId, TRUE)>>)
    ELSE Res(b, ext, TRUE, "none", FALSE, Null, <<Ev("attach", newId, FALSE)>>)

\* A bug: the fields are assigned before launch is awaited.
launchWithDebugPort_AssignFirst(b, ext, newId, launchOk) ==
    IF launchOk
    THEN Res(newId, FALSE, FALSE, "launched", TRUE, newId,
             <<Ev("launch", newId, TRUE)>>)
    ELSE Res(newId, FALSE, TRUE, "none", FALSE, Null,
             <<Ev("launch", newId, FALSE)>>)

\* launchWithDebugPort(): the fields are assigned only after launch resolved.
launchWithDebugPort(b, ext, newId, launchOk) ==
    IF launchOk
    THEN Res(newId, FALSE, FALSE, "launched", TRUE, newId,
             <<Ev("launch", newId, TRUE)>>)
    ELSE Res(b, ext, TRUE, "none", FALSE, Null, <<Ev("launch", newId, FALSE)>>)

\* Prepend the invocations made before r was produced.
After(evs, r) == [r EXCEPT !.events = evs \o @]

\* A call that ends because isBrowserAlive threw.
ProbeThrew(b, ext) ==
    Res(b, ext, TRUE, "none", FALSE, Null, <<Ev("isBrowserAlive", b, FALSE)>>)

\* getOrCreateBrowser, step 1 (debug port active).
ExternalBranch(b, ext, p, newId, attachOk) ==
    IF b # Null /\ ext
    THEN LET isAlive == isBrowserAlive(p) IN
         IF isAlive.threw THEN ProbeThrew(b, ext)
         ELSE IF isAlive.value
         THEN Res(b, ext, FALSE, "reused", FALSE, b,
                  <<Ev("isBrowserAlive", b, TRUE)>>)
         ELSE After(<<Ev("isBrowserAlive", b, FALSE)>>,
                    connectToExisting(b, ext, newId, attachOk))
    ELSE connectToExisting(b, ext, newId, attachOk)

\* A bug: the user is notified after the launch.
LaunchBranch_NotifyAfter(b, ext, hasCb, newId, cbOk, launchOk) ==
    LET r == launchWithDebugPort(b, ext, newId, launchOk) IN
    IF hasCb /\ ~r.threw
    THEN [r EXCEPT !.events = @ \o <<Ev("onBrowserLaunch", Null, cbOk)>>,
                   !.threw = ~cbOk]
    ELSE r

\* getOrCreateBrowser, step 3 (launch).
LaunchBranch(b, ext, hasCb, newId, cbOk, launchOk) ==
    IF hasCb
    THEN IF cbOk
         THEN After(<<Ev("onBrowserLaunch", Null, TRUE)>>,
                    launchWithDebugPort(b, ext, newId, launchOk))
         ELSE Res(b, ext, TRUE, "none", FALSE, Null,
                  <<Ev("onBrowserLaunch", Null, FALSE)>>)
    ELSE launchWithDebugPort(b, ext, newId, launchOk)

\* A bug: the persistent instance is reused without a liveness probe.
PersistentBranch_NoProbe(b, ext, hasCb, p, newId, cbOk, launchOk) ==
    IF b # Null /\ ~ext
    THEN Res(b, ext, FALSE, "reused", FALSE, b, <<>>)
    ELSE LaunchBranch(b, ext, hasCb, newId, cbOk, launchOk)

\* getOrCreateBrowser, steps 2 and 3 (debug port not active).
PersistentBranch(b, ext, hasCb, p, newId, cbOk, launchOk) ==
    IF b # Null /\ ~ext
    THEN LET isAlive == isBrowserAlive(p) IN
         IF isAlive.threw THEN ProbeThrew(b, ext)
         ELSE IF isAlive.value
         THEN Res(b, ext, FALSE, "reused", FALSE, b,
                  <<Ev("isBrowserAlive", b, TRUE)>>)
         ELSE After(<<Ev("isBrowserAlive", b, FALSE)>>,
                    LaunchBranch(Null, ext, hasCb, newId, cbOk, launchOk))
    ELSE LaunchBranch(b, ext, hasCb, newId, cbOk, launchOk)

\* getOrCreateBrowser().
getOrCreateBrowser(b, ext, hasCb, resp, p, newId, attachOk, cbOk, launchOk) ==
    LET active == isDebugPortActive(resp) IN
    IF active.threw
    THEN Res(b, ext, TRUE, "none", FALSE, Null,
             <<Ev("isDebugPortActive", Null, FALSE)>>)
    ELSE IF active.value
    THEN After(<<Ev("isDebugPortActive", Null, TRUE)>>,
               ExternalBranch(b, ext, p, newId, attachOk))
    ELSE After(<<Ev("isDebugPortActive", Null, FALSE)>>,
               PersistentBranch(b, ext, hasCb, p, newId, cbOk, launchOk))

\* A bug: an external browser is closed like any other.
closeBrowser_NoExternalGuard(b, ext, persistent, force, closeOk) ==
    IF b = Null THEN Res(b, ext, FALSE, "none", FALSE, Null, <<>>)
    ELSE IF persistent /\ ~force THEN Res(b, ext, FALSE, "none", FALSE, Null, <<>>)
    ELSE Res(Null, FALSE, FALSE, "none", FALSE, Null, <<Ev("close", b, closeOk)>>)

\* A bug: persistent mode is not looked at.
closeBrowser_NoPersistentGuard(b, ext, persistent, force, closeOk) ==
    IF b = Null THEN Res(b, ext, FALSE, "none", FALSE, Null, <<>>)
    ELSE IF ext /\ ~force THEN Res(Null, FALSE, FALSE, "none", FALSE, Null, <<>>)
    ELSE Res(Null, FALSE, FALSE, "none", FALSE, Null, <<Ev("close", b, closeOk)>>)

\* A bug: no try/catch/finally around close().
closeBrowser_NoFinally(b, ext, persistent, force, closeOk) ==
    IF b = Null THEN Res(b, ext, FALSE, "none", FALSE, Null, <<>>)
    ELSE IF ext /\ ~force THEN Res(Null, FALSE, FALSE, "none", FALSE, Null, <<>>)
    ELSE IF persistent /\ ~force THEN Res(b, ext, FALSE, "none", FALSE, Null, <<>>)
    ELSE IF closeOk
    THEN Res(Null, FALSE, FALSE, "none", FALSE, Null, <<Ev("close", b, TRUE)>>)
    ELSE Res(b, ext, TRUE, "none", FALSE, Null, <<Ev("close", b, FALSE)>>)

\* closeBrowser(force).
closeBrowser(b, ext, persistent, force, closeOk) ==
    IF b = Null THEN Res(b, ext, FALSE, "none", FALSE, Null, <<>>)
    ELSE IF ext /\ ~force THEN Res(Null, FALSE, FALSE, "none", FALSE, Null, <<>>)
    ELSE IF persistent /\ ~force THEN Res(b, ext, FALSE, "none", FALSE, Null, <<>>)
    ELSE \* try { close } catch { warn } finally { clear }
         Res(Null, FALSE, FALSE, "none", FALSE, Null, <<Ev("close", b, closeOk)>>)

\* A bug: only the handle is dropped.
disconnect_KeepFlag(b, ext) == Res(Null, ext, FALSE, "none", FALSE, Null, <<>>)

\* A bug: only the flag is cleared.
disconnect_KeepHandle(b, ext) == Res(b, FALSE, FALSE, "none", FALSE, Null, <<>>)

\* disconnect().
disconnect(b, ext) == Res(Null, FALSE, FALSE, "none", FALSE, Null, <<>>)

\* getBrowser() and isExternalBrowser().
getBrowser == browser
isExternalBrowser == isConnectedToExternal


\* ------------------------------------------------------------------ strings
\* A string is the sequence of its pieces, so that concatenation,
\* "starts with" and "includes" are computed on it: 'https://example.com/p1'
\* is <<"https://", "example", ".com", "/p1">>.  NoUrl is null / undefined.
NoUrl == <<>>

\* Pieces a URL can begin with that the URL parser reads as a scheme.
SchemePieces == {"https://", "http://", "HTTPS://", "mailto:", "MAILTO:",
                 "tel:", "javascript:"}
\* user-info pieces ('x@'), host-name pieces and path pieces
UserPieces == {"x@"}
HostPieces == {"a", "y", "example", "google", "github", "gmail", "not",
               "mail.", "docs.", "gist.", ".com"}
PathPieces == {"/", "/p1", "/p2"}

\* String.prototype.toLowerCase on a scheme piece (the other pieces used
\* are lower case already).
Lower(piece) ==
    CASE piece = "HTTPS://" -> "https://"
      [] piece = "MAILTO:"  -> "mailto:"
      [] OTHER -> piece

\* haystack.includes(needle)
Includes(haystack, needle) ==
    \E i \in 1..(Len(haystack) - Len(needle) + 1) :
        SubSeq(haystack, i, i + Len(needle) - 1) = needle

\* The longest prefix of s whose pieces are all in set.
RECURSIVE Run(_, _)
Run(s, set) ==
    IF s # <<>> /\ Head(s) \in set THEN <<Head(s)>> \o Run(Tail(s), set)
    ELSE <<>>

Drop(s, n) == SubSeq(s, n + 1, Len(s))

\* new URL(s): whether it throws, and hostname, origin and pathname of the
\* result.  Without a scheme the string is a relative URL and the
\* constructor throws.  For http(s) the authority is read as
\* [user-info] host, a host is required, and the path defaults to '/';
\* 'https://mailto:x@y.com' has user name 'mailto', password 'x', host
\* 'y.com'.  Any other scheme gives an opaque path, an empty host name and
\* the origin 'null'.
Invalid == [ok |-> FALSE, hostname |-> <<>>, origin |-> <<>>, pathname |-> <<>>]

ParseUrl(s) ==
    IF s = <<>> \/ Head(s) \notin SchemePieces THEN Invalid
    ELSE LET scheme == Lower(Head(s))
             rest == Tail(s)
         IN  IF scheme \in {"http://", "https://"}
             THEN LET auth == IF Len(rest) >= 2 /\ rest[1] \in SchemePieces
                                   /\ rest[2] \in UserPieces
                              THEN Drop(rest, 2)
                              ELSE IF rest # <<>> /\ Head(rest) \in UserPieces
                              THEN Tail(rest)
                              ELSE rest
                      host == Run(auth, HostPieces)
                      path == Drop(auth, Len(host))
                  IN  IF host = <<>> \/ Run(path, PathPieces) # path
                      THEN Invalid
                      ELSE [ok |-> TRUE, hostname |-> host,
                            origin |-> <<scheme>> \o host,
                            pathname |-> IF path = <<>> THEN <<"/">> ELSE path]
             ELSE [ok |-> TRUE, hostname |-> <<>>, origin |-> <<"null">>,
                   pathname |-> rest]

\* NEW_TAB_PATTERNS = [/^mailto:/i, /^tel:/i, /^javascript:/i]
NEW_TAB_PATTERNS == {"mailto:", "tel:", "javascript:"}
MatchesNewTabPattern(s) == s # <<>> /\ Lower(Head(s)) \in NEW_TAB_PATTERNS

\* WORKSPACE_DOMAINS
WORKSPACE_DOMAINS ==
    { <<"mail.", "google", ".com">>, <<"gmail", ".com">>,
      <<"outlook.", "office", ".com">>, <<"outlook.", "live", ".com">>,
      <<"calendar.", "google", ".com">>, <<"drive.", "google", ".com">>,
      <<"docs.", "google", ".com">>, <<"sheets.", "google", ".com">>,
      <<"github", ".com">>, <<"notion", ".so">>, <<"slack", ".com">>,
      <<"trello", ".com">>, <<"asana", ".com">> }


\* -------------------------------------------------------- TabSessionManager
\* What a call invoked on the browser, a page or the confirmation callback:
\* the page concerned, whether the invocation resolved, the URL handed over.
TEv(e, pg, ok, url) == [ev |-> e, pg |-> pg, ok |-> ok, url |-> url]

\* onNewTabRequest(url); ok is what it resolved to (a rejection shows as the
\* call's error).
Asked(url, approved) == TEv("onNewTabRequest", Null, approved, url)

\* What a call leaves behind: the two fields, whether it threw (and what),
\* and the page it resolved to.
TRes(sp, last, threw, err, ret, events) ==
    [sessionPage |-> sp, last |-> last, threw |-> threw, err |-> err,
     ret |-> ret, events |-> events]

NoSessionMsg == "No session page available. Call getOrCreateSessionPage first."

TAfter(evs, r) == [r EXCEPT !.events = evs \o @]

\* What the awaited calls of one method call do.  o.live: the pages that
\* answer; o.gap: what browser.getActivePage() does; o.createOk, o.newId:
\* browser.createPage(); o.gotoOk: whether the network lets a goto settle;
\* o.cb: what onNewTabRequest resolves to.
Evaluates(o, pg) == pg \in o.live
\* page.goto(url) resolves: the page answers, the URL is one the browser can
\* navigate to, and the load settles in time.
GotoResolves(o, pg, url) == pg \in o.live /\ ParseUrl(url).ok /\ o.gotoOk

\* A bug: the URL is handed to goto as given.
normalizeUrl_Identity(url) == url

\* normalizeUrl(url): /^https?:\/\//i
normalizeUrl(url) ==
    IF url # <<>> /\ Lower(Head(url)) \in {"http://", "https://"}
    THEN url
    ELSE <<"https://">> \o url

\* shouldNavigateToUrl(targetUrl)
shouldNavigateToUrl(last, targetUrl) ==
    IF last = NoUrl THEN TRUE
    ELSE LET current == ParseUrl(last)
             target == ParseUrl(targetUrl)
         IN  IF ~current.ok \/ ~target.ok THEN TRUE          \* catch
             ELSE current.origin # target.origin
                  \/ current.pathname # target.pathname

\* isSessionPageValid(): a failed probe forgets the page.
isSessionPageValid(sp, o) ==
    IF sp = Null THEN [valid |-> FALSE, sessionPage |-> sp, events |-> <<>>]
    ELSE IF Evaluates(o, sp)
    THEN [valid |-> TRUE, sessionPage |-> sp,
          events |-> <<TEv("evaluate", sp, TRUE, NoUrl)>>]
    ELSE [valid |-> FALSE, sessionPage |-> Null,
          events |-> <<TEv("evaluate", sp, FALSE, NoUrl)>>]

\* A bug: the active page is looked at under every strategy.
findReusablePage_IgnoreStrategy(strat, o) ==
    IF o.gap.kind = "page" /\ Evaluates(o, o.gap.page)
    THEN [page |-> o.gap.page,
          events |-> <<TEv("getActivePage", o.gap.page, TRUE, NoUrl),
                       TEv("evaluate", o.gap.page, TRUE, NoUrl)>>]
    ELSE [page |-> Null,
          events |-> <<TEv("getActivePage", o.gap.page, o.gap.kind # "throws",
                           NoUrl)>>]

\* findReusablePage()
findReusablePage(strat, o) ==
    IF strat = "always_new" THEN [page |-> Null, events |-> <<>>]
    ELSE IF o.gap.kind = "throws"
    THEN [page |-> Null, events |-> <<TEv("getActivePage", Null, FALSE, NoUrl)>>]
    ELSE IF o.gap.kind = "null"
    THEN [page |-> Null, events |-> <<TEv("getActivePage", Null, TRUE, NoUrl)>>]
    ELSE IF ~Evaluates(o, o.gap.page)
    THEN [page |-> Null,
          events |-> <<TEv("getActivePage", o.gap.page, TRUE, NoUrl),
                       TEv("evaluate", o.gap.page, FALSE, NoUrl)>>]
    ELSE [page |-> o.gap.page,
          events |-> <<TEv("getActivePage", o.gap.page, TRUE, NoUrl),
                       TEv("evaluate", o.gap.page, TRUE, NoUrl)>>]

\* A bug: goto is invoked without checking that a session page is tracked.
navigateTo_NoGuard(sp, last, url, o) ==
    IF GotoResolves(o, sp, normalizeUrl(url))
    THEN TRes(sp, normalizeUrl(url), FALSE, "", Null,
              <<TEv("goto", sp, TRUE, normalizeUrl(url))>>)
    ELSE TRes(sp, last, TRUE, "goto", Null,
              <<TEv("goto", sp, FALSE, normalizeUrl(url))>>)

\* navigateTo(url)
navigateTo(sp, last, url, o) ==
    IF sp = Null THEN TRes(sp, last, TRUE, NoSessionMsg, Null, <<>>)
    ELSE LET normalizedUrl == normalizeUrl(url) IN
         IF GotoResolves(o, sp, normalizedUrl)
         THEN TRes(sp, normalizedUrl, FALSE, "", Null,
                   <<TEv("goto", sp, TRUE, normalizedUrl)>>)
         ELSE TRes(sp, last, TRUE, "goto", Null,
                   <<TEv("goto", sp, FALSE, normalizedUrl)>>)

\* "if (initialUrl) await this.navigateTo(initialUrl); return this.sessionPage"
NavigateAndReturn(sp, last, url, o, navigate) ==
    IF navigate
    THEN LET n == navigateTo(sp, last, url, o)
         IN  IF n.threw THEN n ELSE [n EXCEPT !.ret = sp]
    ELSE TRes(sp, last, FALSE, "", sp, <<>>)

\* getOrCreateSessionPage(initialUrl); NoUrl is a call without argument.
getOrCreateSessionPage(sp, last, strat, url, o) ==
    LET v == isSessionPageValid(sp, o) IN
    IF v.valid
    THEN TAfter(v.events,
                NavigateAndReturn(sp, last, url, o,
                    url # NoUrl /\ shouldNavigateToUrl(last, url)))
    ELSE LET f == findReusablePage(strat, o) IN
         IF f.page # Null
         THEN TAfter(v.events \o f.events,
                     NavigateAndReturn(f.page, last, url, o, url # NoUrl))
         ELSE IF ~o.createOk
         THEN TRes(v.sessionPage, last, TRUE, "createPage", Null,
                   v.events \o f.events
                       \o <<TEv("createPage", o.newId, FALSE, NoUrl)>>)
         ELSE TAfter(v.events \o f.events
                         \o <<TEv("createPage", o.newId, TRUE, NoUrl)>>,
                     NavigateAndReturn(o.newId, last, url, o, url # NoUrl))

\* A bug: the callback's answer is not looked at.
requestNewTab_IgnoreAnswer(sp, last, hasCb, url, o) ==
    IF hasCb /\ o.cb = "throws"
    THEN TRes(sp, last, TRUE, "onNewTabRequest", Null, <<Asked(url, FALSE)>>)
    ELSE LET asked == IF hasCb THEN <<Asked(url, o.cb = "true")>> ELSE <<>>
         IN  IF ~o.createOk
             THEN TRes(sp, last, TRUE, "createPage", Null,
                       asked \o <<TEv("createPage", o.newId, FALSE, NoUrl)>>)
             ELSE IF ~GotoResolves(o, o.newId, normalizeUrl(url))
             THEN TRes(sp, last, TRUE, "goto", Null,
                       asked \o <<TEv("createPage", o.newId, TRUE, NoUrl),
                                  TEv("goto", o.newId, FALSE, normalizeUrl(url))>>)
             ELSE TRes(o.newId, url, FALSE, "", o.newId,
                       asked \o <<TEv("createPage", o.newId, TRUE, NoUrl),
                                  TEv("goto", o.newId, TRUE, normalizeUrl(url))>>)

\* A bug: the new page becomes the session page before it is navigated.
requestNewTab_AssignFirst(sp, last, hasCb, url, o) ==
    IF hasCb /\ o.cb = "throws"
    THEN TRes(sp, last, TRUE, "onNewTabRequest", Null, <<Asked(url, FALSE)>>)
    ELSE IF hasCb /\ o.cb = "false"
    THEN TAfter(<<Asked(url, FALSE)>>,
                NavigateAndReturn(sp, last, url, o, TRUE))
    ELSE LET asked == IF hasCb THEN <<Asked(url, TRUE)>> ELSE <<>>
         IN  IF ~o.createOk
             THEN TRes(sp, last, TRUE, "createPage", Null,
                       asked \o <<TEv("createPage", o.newId, FALSE, NoUrl)>>)
             ELSE IF ~GotoResolves(o, o.newId, normalizeUrl(url))
             THEN TRes(o.newId, last, TRUE, "goto", Null,
                       asked \o <<TEv("createPage", o.newId, TRUE, NoUrl),
                                  TEv("goto", o.newId, FALSE, normalizeUrl(url))>>)
             ELSE TRes(o.newId, url, FALSE, "", o.newId,
                       asked \o <<TEv("createPage", o.newId, TRUE, NoUrl),
                                  TEv("goto", o.newId, TRUE, normalizeUrl(url))>>)

\* requestNewTab(url)
requestNewTab(sp, last, hasCb, url, o) ==
    IF hasCb /\ o.cb = "throws"
    THEN TRes(sp, last, TRUE, "onNewTabRequest", Null, <<Asked(url, FALSE)>>)
    ELSE IF hasCb /\ o.cb = "false"
    THEN TAfter(<<Asked(url, FALSE)>>,
                NavigateAndReturn(sp, last, url, o, TRUE))
    ELSE LET asked == IF hasCb THEN <<Asked(url, TRUE)>> ELSE <<>>
         IN  IF ~o.createOk
             THEN TRes(sp, last, TRUE, "createPage", Null,
                       asked \o <<TEv("createPage", o.newId, FALSE, NoUrl)>>)
             ELSE IF ~GotoResolves(o, o.newId, normalizeUrl(url))
             THEN TRes(sp, last, TRUE, "goto", Null,
                       asked \o <<TEv("createPage", o.newId, TRUE, NoUrl),
                                  TEv("goto", o.newId, FALSE, normalizeUrl(url))>>)
             ELSE TRes(o.newId, url, FALSE, "", o.newId,
                       asked \o <<TEv("createPage", o.newId, TRUE, NoUrl),
                                  TEv("goto", o.newId, TRUE, normalizeUrl(url))>>)

\* A bug: a null current URL is answered before the patterns are tried.
shouldCreateNewTab_NullFirst(strat, currentUrl, targetUrl) ==
    IF strat = "always_reuse" THEN Ret(FALSE)
    ELSE IF strat = "always_new" THEN Ret(TRUE)
    ELSE IF currentUrl = NoUrl THEN Ret(FALSE)
    ELSE IF MatchesNewTabPattern(targetUrl) THEN Ret(TRUE)
    ELSE LET current == ParseUrl(currentUrl)
             target == ParseUrl(targetUrl)
         IN  Ret(current.ok /\ target.ok
                 /\ current.hostname # target.hostname
                 /\ (\E domain \in WORKSPACE_DOMAINS :
                         Includes(current.hostname, domain))
                 /\ (\E domain \in WORKSPACE_DOMAINS :
                         Includes(target.hostname, domain)))

\* A bug: the patterns are tried before the strategy is looked at.
shouldCreateNewTab_PatternsFirst(strat, currentUrl, targetUrl) ==
    IF MatchesNewTabPattern(targetUrl) THEN Ret(TRUE)
    ELSE IF strat = "always_reuse" THEN Ret(FALSE)
    ELSE IF strat = "always_new" THEN Ret(TRUE)
    ELSE IF currentUrl = NoUrl THEN Ret(FALSE)
    ELSE LET current == ParseUrl(currentUrl)
             target == ParseUrl(targetUrl)
         IN  Ret(current.ok /\ target.ok
                 /\ current.hostname # target.hostname
                 /\ (\E domain \in WORKSPACE_DOMAINS :
                         Includes(current.hostname, domain))
                 /\ (\E domain \in WORKSPACE_DOMAINS :
                         Includes(target.hostname, domain)))

\* shouldCreateNewTab(currentUrl, targetUrl); NoUrl is a null currentUrl.
\* The result says whether the call threw and what it returned.
shouldCreateNewTab(strat, currentUrl, targetUrl) ==
    IF strat = "always_reuse" THEN Ret(FALSE)
    ELSE IF strat = "always_new" THEN Ret(TRUE)
    ELSE IF MatchesNewTabPattern(targetUrl) THEN Ret(TRUE)
    ELSE IF currentUrl = NoUrl THEN Ret(FALSE)
    ELSE LET current == ParseUrl(currentUrl)
             target == ParseUrl(targetUrl)
         IN  IF ~current.ok \/ ~target.ok THEN Ret(FALSE)      \* catch
             ELSE IF current.hostname = target.hostname THEN Ret(FALSE)
             ELSE LET isLeavingWorkspace ==
                          \E domain \in WORKSPACE_DOMAINS :
                              Includes(current.hostname, domain)
                      isGoingToWorkspace ==
                          \E domain \in WORKSPACE_DOMAINS :
                              Includes(target.hostname, domain)
                  IN  IF isLeavingWorkspace /\ isGoingToWorkspace
                      THEN Ret(TRUE)
                      ELSE Ret(FALSE)

\* getSessionPage()
getSessionPage == sessionPage

\* What page.url() does: it throws, or it gives the address of the document
\* the page shows.
UrlThrows == <<"<url() throws>">>

\* A bug: the page is not probed before its URL is read.
getCurrentUrl_NoProbe(sp, last, o, pageUrl) ==
    IF sp = Null
    THEN [r |-> TRes(sp, last, FALSE, "", Null, <<>>), value |-> NoUrl]
    ELSE IF pageUrl = UrlThrows
    THEN [r |-> TRes(sp, last, FALSE, "", Null, <<TEv("url", sp, FALSE, NoUrl)>>),
          value |-> NoUrl]
    ELSE [r |-> TRes(sp, last, FALSE, "", Null, <<TEv("url", sp, TRUE, pageUrl)>>),
          value |-> pageUrl]

\* getCurrentUrl(): the result and the string returned (NoUrl: null).
getCurrentUrl(sp, last, o, pageUrl) ==
    LET v == isSessionPageValid(sp, o) IN
    IF ~v.valid
    THEN [r |-> TRes(v.sessionPage, last, FALSE, "", Null, v.events),
          value |-> NoUrl]
    ELSE IF pageUrl = UrlThrows
    THEN [r |-> TRes(sp, last, FALSE, "", Null,
                     v.events \o <<TEv("url", sp, FALSE, NoUrl)>>),
          value |-> NoUrl]
    ELSE [r |-> TRes(sp, last, FALSE, "", Null,
                     v.events \o <<TEv("url", sp, TRUE, pageUrl)>>),
          value |-> pageUrl]

\* cleanup()
cleanup(sp, last, closeOk) ==
    IF sp # Null
    THEN TRes(Null, NoUrl, FALSE, "", Null, <<TEv("close", sp, closeOk, NoUrl)>>)
    ELSE TRes(sp, last, FALSE, "", Null, <<>>)


\* ------------------------------------------------------------ the agent route
\* StatusEnum values are written as their names ("RUNNING", "END", ...); a
\* null errorMsg or abortController is "null"; an Error thrown by the
\* service carries the message "model request failed".
\* The store before any request (store/create is not part of the route).
InitialStore ==
    [thinking |-> FALSE, status |-> "INIT", errorMsg |-> "null",
     abortController |-> "null", pendingMessages |-> <<>>,
     instructions |-> 0, messages |-> <<>>]

\* store.setState(partial): the given fields replace the store's.
setState(s, partial) ==
    [f \in DOMAIN s |-> IF f \in DOMAIN partial THEN partial[f] ELSE s[f]]

\* runAgent, lines 47-52: nothing happens while thinking.
runAgentReturnsEarly(s) == s.thinking

\* runAgent, lines 54-59.
runAgent(s) ==
    IF runAgentReturnsEarly(s) THEN s
    ELSE setState(s, [abortController |-> "live", thinking |-> TRUE,
                      status |-> "RUNNING", errorMsg |-> "null"])

wrappedSetState_PassThrough(s, newState) == setState(s, newState)

\* wrappedSetState, lines 68-80.
wrappedSetState(s, newState) ==
    IF /\ Len(s.pendingMessages) > 0
       /\ newState.status \in {"END", "CALL_USER"}
    THEN setState(s, setState(newState, [status |-> "RUNNING",
                                         thinking |-> TRUE]))
    ELSE setState(s, newState)

\* Lines 107-112: a queued instruction is taken up.
takesNext(s) ==
    /\ Len(s.pendingMessages) > 0
    /\ s.status # "ERROR"
    /\ s.status # "USER_STOPPED"
    /\ s.abortController # "aborted"

afterRunAgent_IgnoreAbort(s) ==
    IF /\ Len(s.pendingMessages) > 0
       /\ s.status # "ERROR"
       /\ s.status # "USER_STOPPED"
    THEN setState(s, [instructions |-> s.pendingMessages[1],
                      pendingMessages |-> Tail(s.pendingMessages),
                      messages |-> Append(s.messages, s.pendingMessages[1]),
                      status |-> "RUNNING", thinking |-> TRUE])
    ELSE setState(s, [thinking |-> FALSE])

afterRunAgent_KeepHead(s) ==
    IF takesNext(s)
    THEN setState(s, [instructions |-> s.pendingMessages[1],
                      messages |-> Append(s.messages, s.pendingMessages[1]),
                      status |-> "RUNNING", thinking |-> TRUE])
    ELSE setState(s, [thinking |-> FALSE])

\* The loop after the service returned, lines 98-151: the next queued
\* message becomes the instructions and one human message, or the loop ends.
afterRunAgent(s) ==
    IF takesNext(s)
    THEN setState(s, [instructions |-> s.pendingMessages[1],
                      pendingMessages |-> Tail(s.pendingMessages),
                      messages |-> Append(s.messages, s.pendingMessages[1]),
                      status |-> "RUNNING", thinking |-> TRUE])
    ELSE setState(s, [thinking |-> FALSE])

\* The loop after the service threw, lines 86-96 and 151.
catchRunAgent(s, error) ==
    setState(setState(s, [status |-> "ERROR",
                          errorMsg |-> IF error = NonError
                                       THEN "Unknown error in agent loop" ELSE error,
                          thinking |-> FALSE]),
             [thinking |-> FALSE])

\* pauseRun and resumeRun, lines 153-166.
pauseRun(s, agent) == IF agent THEN setState(s, [thinking |-> FALSE]) ELSE s
resumeRun(s, agent) == IF agent THEN setState(s, [thinking |-> FALSE]) ELSE s

\* stopRun, lines 167-185.
stopRun(s) ==
    setState(s, [status |-> "END", thinking |-> FALSE,
                 pendingMessages |-> <<>>,
                 abortController |-> IF s.abortController = "null"
                                     THEN "null" ELSE "aborted"])

\* addPendingMessage, lines 191-205.
addPendingMessage(s, message) ==
    setState(s, [pendingMessages |-> Append(s.pendingMessages, message)])

\* ---------------------------------------------------------- HybridOperator
\* DefaultBrowserOperator.getInstance returns the one browser operator,
\* written 1.
BROWSER_COMPATIBLE_ACTIONS ==
    {"click", "type", "scroll", "navigate", "navigate_back", "left_double",
     "right_single"}

\* One call on an operator or on DefaultBrowserOperator: whom, which action,
\* whether it succeeded, and whether the session was active when it was made.
HEv(to, action, ok, active) ==
    [to |-> to, action |-> action, ok |-> ok, active |-> active]

\* The operator's fields after a call, the calls made in order, and what
\* the caller gets: a value or an exception.
HRes(operator, active, events, ret, threw) ==
    [operator |-> operator, active |-> active, events |-> events,
     ret |-> ret, threw |-> threw]

\* ensureBrowserOperator, lines 71-101: the held operator, or a new one, or
\* null when the system has no browser or getInstance fails.
ensureBrowserOperator(operator, active, hasBrowser, instanceOk) ==
    IF operator # Null THEN HRes(operator, active, <<>>, operator, FALSE)
    ELSE IF ~hasBrowser
    THEN HRes(Null, active, <<HEv("hasBrowser", "", FALSE, active)>>,
              Null, FALSE)
    ELSE IF ~instanceOk
    THEN HRes(Null, active, <<HEv("hasBrowser", "", TRUE, active),
                              HEv("getInstance", "", FALSE, active)>>,
              Null, FALSE)
    ELSE HRes(1, active,
              <<HEv("hasBrowser", "", TRUE, active),
                HEv("getInstance", "", TRUE, active)>>,
              1, FALSE)

handleOpenBrowser_ActivateFirst(operator, active, url, o) ==
    LET e == ensureBrowserOperator(operator, TRUE, o.hasBrowser, o.instanceOk)
    IN  IF e.ret = Null
        THEN HRes(e.operator, TRUE, e.events, "ERROR", FALSE)
        ELSE HRes(e.operator, TRUE,
                  IF url
                  THEN e.events \o <<HEv("browser", "navigate", o.navigateOk,
                                         TRUE)>>
                  ELSE e.events,
                  "RUNNING", FALSE)

\* handleOpenBrowser, lines 193-237.
handleOpenBrowser(operator, active, url, o) ==
    LET e == ensureBrowserOperator(operator, active, o.hasBrowser,
                                   o.instanceOk)
    IN  IF e.ret = Null
        THEN HRes(e.operator, active, e.events, "ERROR", FALSE)
        ELSE HRes(e.operator, TRUE,
                  IF url
                  THEN e.events \o <<HEv("browser", "navigate", o.navigateOk,
                                         TRUE)>>
                  ELSE e.events,
                  "RUNNING", FALSE)

\* handleCloseBrowser, lines 242-253.
handleCloseBrowser(operator, active) ==
    HRes(operator, FALSE, <<>>, "RUNNING", FALSE)

\* An operator's execute(params): its output, or its exception.
Executed(operator, active, events, to, action, ok) ==
    HRes(operator, active, events \o <<HEv(to, action, ok, active)>>,
         IF ok THEN to ELSE "none", ~ok)

\* execute, lines 163-187: the routing after the switch.
route(operator, active, events, action, browserOk, computerOk) ==
    IF active /\ operator # Null /\ action \in BROWSER_COMPATIBLE_ACTIONS
    THEN IF browserOk
         THEN Executed(operator, active, events, "browser", action, TRUE)
         ELSE Executed(operator, active,
                       events \o <<HEv("browser", action, FALSE, active)>>,
                       "computer", action, computerOk)
    ELSE Executed(operator, active, events, "computer", action, computerOk)

\* execute, lines 126-188.  url: whether the action's input carries a URL;
\* o: whether hasBrowser, getInstance, the navigation of open_browser, the
\* browser operator's execute and the computer operator's execute succeed.
execute(operator, active, action, url, o) ==
    IF action = "open_browser"
    THEN handleOpenBrowser(operator, active, url, o)
    ELSE IF action = "close_browser"
    THEN handleCloseBrowser(operator, active)
    ELSE IF action \in {"navigate", "navigate_back"}
    THEN IF active /\ operator # Null
         THEN Executed(operator, active, <<>>, "browser", action, o.browserOk)
         ELSE LET opened == handleOpenBrowser(operator, active, url, o)
              IN  IF opened.operator # Null
                  THEN Executed(opened.operator, opened.active, opened.events,
                                "browser", action, o.browserOk)
                  ELSE route(opened.operator, opened.active, opened.events,
                             action, o.browserOk, o.computerOk)
    ELSE route(operator, active, <<>>, action, o.browserOk, o.computerOk)

\* screenshot, lines 108-124.
screenshot(operator, active, browserOk, computerOk) ==
    IF active /\ operator # Null
    THEN IF browserOk
         THEN Executed(operator, active, <<>>, "browser", "screenshot", TRUE)
         ELSE Executed(operator, active,
                       <<HEv("browser", "screenshot", FALSE, active)>>,
                       "computer", "screenshot", computerOk)
    ELSE Executed(operator, active, <<>>, "computer", "screenshot", computerOk)

\* HybridOperator.cleanup, lines 258-271.
hybridCleanup(operator, active, cleanupOk) ==
    HRes(Null, FALSE,
         IF operator # Null
         THEN <<HEv("browser", "cleanup", cleanupOk, active)>> ELSE <<>>,
         "none", FALSE)

\* The two calls of getOrCreateSessionPage that overlap.
Callers == {1, 2}

\* A call: where it stands, the initialUrl it was given, the page its
\* current await is about, and how it ended.
Caller(pc, url, page, ret, threw, created) ==
    [pc |-> pc, url |-> url, page |-> page, ret |-> ret, threw |-> threw,
     created |-> created]

\* The application before any request: the store as created, no loop, a
\* new HybridOperator (lines 26-34, 63-66), no call in flight.
AppIdle ==
    /\ store = InitialStore
    /\ loops = [l \in 1..MaxLoops |-> "idle"]
    /\ currentAgent = FALSE
    /\ queued = 0
    /\ agentCall = [op |-> "none", status |-> "INIT", thinking |-> FALSE,
                    message |-> 0, tick |-> 0]
    /\ browserOperator = Null
    /\ browserSessionActive = FALSE
    /\ lastScreenParams = FALSE
    /\ hybridCall = [op |-> "none", action |-> "", url |-> FALSE,
                     preOperator |-> Null, preActive |-> FALSE,
                     r |-> HRes(Null, FALSE, <<>>, "none", FALSE)]
    /\ callers = [c \in Callers |->
                      Caller("idle", NoUrl, Null, Null, FALSE, FALSE)]

\* ------------------------------------------------------------------ actions
Call(op, force, resp, p, r) ==
    [op |-> op, force |-> force, resp |-> resp,
     preBrowser |-> browser, preExt |-> isConnectedToExternal,
     probe |-> p, r |-> r, tick |-> 1 - lastCall.tick]

HeldProbe == IF browser # Null THEN ProbeOf(handles, extStatus, browser)
             ELSE NoProbe

NoRes == Res(Null, FALSE, FALSE, "none", FALSE, Null, <<>>)

\* A TabSessionManager right after construction with default options, on a
\* browser without tabs.
NoTRes == TRes(Null, NoUrl, FALSE, "", Null, <<>>)

NoTabCall == [op |-> "none", url |-> NoUrl, r |-> NoTRes, value |-> NoUrl,
              tick |-> 0]

TabIdle ==
    /\ sessionPage = Null
    /\ lastNavigatedUrl = NoUrl
    /\ strategy = "smart"
    /\ hasOnNewTabRequest = FALSE
    /\ pages = <<>>
    /\ activeTab = Null
    /\ tabCall = NoTabCall

NoDecision == [fn |-> "none", current |-> NoUrl, target |-> NoUrl,
               r |-> Ret(FALSE)]

Init ==
    /\ browser = Null
    /\ isConnectedToExternal = FALSE
    /\ persistentMode \in BOOLEAN
    /\ hasOnBrowserLaunch \in BOOLEAN
    /\ handles = <<>>
    /\ extStatus \in {"off", "live"}
    /\ lastCall = [op |-> "none", force |-> FALSE, resp |-> "none",
                   preBrowser |-> Null, preExt |-> FALSE, probe |-> NoProbe,
                   r |-> NoRes, tick |-> 0]
    /\ TabIdle
    /\ decided = NoDecision
    /\ AppIdle

\* The manager's fields and the browser processes after a call.
Effect(r, kills) ==
    LET env == ApplyEvents([hs |-> handles, ext |-> extStatus], r.events, kills)
    IN  /\ Len(handles) + Constructs(r.events) <= MaxHandles
        /\ browser' = r.browser
        /\ isConnectedToExternal' = r.ext
        /\ handles' = env.hs
        /\ extStatus' = env.ext
        /\ UNCHANGED <<persistentMode, hasOnBrowserLaunch, tabVars, decided, appVars>>

\* The answers tried inside getOrCreateBrowser: one per way the probe ends
\* (fetch rejects without or with a listener, the endpoint answers); the
\* action IsDebugPortActive tries them all.
GetResponses == {"refused", "timeout", "ok"}

GetOrCreateBrowser ==
    \E resp \in PossibleResponses(handles, extStatus) \cap GetResponses :
    \* an attach can succeed only at an endpoint that answers; the callback
    \* is an input only if there is one
    \E attachOk \in (IF resp = "ok" THEN BOOLEAN ELSE {FALSE}) :
    \E cbOk \in (IF hasOnBrowserLaunch THEN BOOLEAN ELSE {TRUE}) :
    \E launchOk \in BOOLEAN :
        /\ LET r == getOrCreateBrowser(browser, isConnectedToExternal,
                                    hasOnBrowserLaunch, resp, HeldProbe,
                                    Len(handles) + 1, attachOk, cbOk, launchOk)
           IN  /\ Effect(r, FALSE)
               /\ lastCall' = Call("getOrCreateBrowser", FALSE, resp, HeldProbe, r)

IsDebugPortActive ==
    \E resp \in PossibleResponses(handles, extStatus) :
        LET a == isDebugPortActive(resp)
            r == Res(browser, isConnectedToExternal, a.threw,
                     IF a.value THEN "true" ELSE "false", FALSE, Null, <<>>)
        IN  /\ Effect(r, FALSE)
            /\ lastCall' = Call("isDebugPortActive", FALSE, resp, NoProbe, r)

CloseBrowser ==
    \E force \in BOOLEAN, closeOk \in BOOLEAN :
    \E kills \in (IF browser # Null /\ isConnectedToExternal /\ force /\ closeOk
                  THEN BOOLEAN ELSE {FALSE}) :
        LET r == closeBrowser(browser, isConnectedToExternal, persistentMode,
                              force, closeOk)
        IN  /\ Effect(r, kills)
            /\ lastCall' = Call("closeBrowser", force, "none", NoProbe, r)

Disconnect ==
    LET r == disconnect(browser, isConnectedToExternal)
    IN  /\ Effect(r, FALSE)
        /\ lastCall' = Call("disconnect", FALSE, "none", NoProbe, r)

\* The user starts a debug-enabled browser on the (free) port.
EnvExtStart ==
    /\ ~Listening(handles, extStatus)
    /\ extStatus' \in {"live", "empty"}
    /\ UNCHANGED <<browser, isConnectedToExternal, persistentMode,
                   hasOnBrowserLaunch, handles, lastCall, tabVars, decided, appVars>>

\* Tabs of the user's browser are closed, opened, or stop answering.
EnvExtChange ==
    /\ extStatus # "off"
    /\ extStatus' \in {"live", "empty", "hung"} \ {extStatus}
    /\ UNCHANGED <<browser, isConnectedToExternal, persistentMode,
                   hasOnBrowserLaunch, handles, lastCall, tabVars, decided, appVars>>

\* The user quits their browser.
EnvExtStop ==
    /\ extStatus # "off"
    /\ LET env == KillProc([hs |-> handles, ext |-> extStatus], ExtProc)
       IN  handles' = env.hs /\ extStatus' = env.ext
    /\ UNCHANGED <<browser, isConnectedToExternal, persistentMode,
                   hasOnBrowserLaunch, lastCall, tabVars, decided, appVars>>

\* A browser this manager launched changes or exits.
EnvLocalChange ==
    \E k \in Ids(handles) :
    \E s \in {"live", "empty", "hung", "dead"} :
        /\ handles[k].kind = "local"
        /\ handles[k].status \notin {"dead", s}
        /\ handles' = IF s = "dead"
                      THEN KillProc([hs |-> handles, ext |-> extStatus], k).hs
                      ELSE [handles EXCEPT ![k].status = s]
        /\ UNCHANGED <<browser, isConnectedToExternal, persistentMode,
                       hasOnBrowserLaunch, extStatus, lastCall, tabVars,
                       decided, appVars>>

Next ==
    \/ GetOrCreateBrowser
    \/ IsDebugPortActive
    \/ CloseBrowser
    \/ Disconnect
    \/ EnvExtStart
    \/ EnvExtChange
    \/ EnvExtStop
    \/ EnvLocalChange

Spec == Init /\ [][Next]_vars

\* The step is a call of a public method.
IsCall == lastCall'.tick # lastCall.tick

\* A BrowserInterface may reject with any value: what a failing
\* getActivePage or evaluate throws is the Error of ProbeOf or a value that
\* has no string message.
AnyProbes(p) ==
    {p} \cup (IF p.gap \notin {"ok", "none", NoPagesMsg}
              THEN {[gap |-> NonError, eval |-> "ok"]} ELSE {})
        \cup (IF p.gap = "ok" /\ p.eval # "ok"
              THEN {[gap |-> "ok", eval |-> NonError]} ELSE {})

\* getOrCreateBrowser on a browser that may throw any value.
GetOrCreateBrowserAny ==
    \E resp \in PossibleResponses(handles, extStatus) \cap GetResponses :
    \E attachOk \in (IF resp = "ok" THEN BOOLEAN ELSE {FALSE}) :
    \E cbOk \in (IF hasOnBrowserLaunch THEN BOOLEAN ELSE {TRUE}) :
    \E launchOk \in BOOLEAN :
    \E p \in AnyProbes(HeldProbe) :
        /\ LET r == getOrCreateBrowser(browser, isConnectedToExternal,
                                    hasOnBrowserLaunch, resp, p,
                                    Len(handles) + 1, attachOk, cbOk, launchOk)
           IN  /\ Effect(r, FALSE)
               /\ lastCall' = Call("getOrCreateBrowser", FALSE, resp, p, r)

NextAny ==
    \/ GetOrCreateBrowserAny
    \/ CloseBrowser
    \/ Disconnect
    \/ EnvExtStart
    \/ EnvExtChange
    \/ EnvExtStop
    \/ EnvLocalChange

SpecAny == Init /\ [][NextAny]_vars

\* ------------------------------------------- TabSessionManager: actions
Strategies == {"smart", "always_reuse", "always_new"}

\* URL strings handed to the manager.
ExampleCom == <<"example", ".com">>
HttpsExampleComP1 == <<"https://", "example", ".com", "/p1">>
MailtoXY == <<"mailto:", "x@", "y", ".com">>
NavUrls == {ExampleCom, HttpsExampleComP1, MailtoXY}

\* A tab of the browser: whether it answers ("live") or has crashed, hung
\* or been closed ("dead").  The document a tab ends up showing after a
\* goto is the server's business (redirects) and is not tracked.
Page(status) == [status |-> status]

PageIds(ps) == 1..Len(ps)
LivePages(ps) == {k \in PageIds(ps) : ps[k].status = "live"}

\* What browser.getActivePage() can do: resolve to the active tab, reject
\* (no pages, connection lost), or resolve to nothing.
NoGap == [kind |-> "null", page |-> Null]

GapOutcomes ==
    IF activeTab # Null
    THEN {[kind |-> "page", page |-> activeTab], [kind |-> "throws", page |-> Null]}
    ELSE {[kind |-> "throws", page |-> Null], NoGap}

\* The outcomes of what one method call awaits; a page that createPage
\* has just opened answers.
Outcomes(gap, createOk, gotoOk, cb) ==
    [live |-> LivePages(pages) \cup (IF createOk THEN {Len(pages) + 1} ELSE {}),
     gap |-> gap, createOk |-> createOk, newId |-> Len(pages) + 1,
     gotoOk |-> gotoOk, cb |-> cb]

Created(events) ==
    \E i \in 1..Len(events) : events[i].ev = "createPage" /\ events[i].ok

\* The call closed this page.
Closed(events, k) ==
    \E i \in 1..Len(events) :
        events[i].ev = "close" /\ events[i].ok /\ events[i].pg = k

\* The tabs after a call: createPage opens a tab and the browser activates
\* it; close shuts a tab.
PagesAfter(ps, events) ==
    IF Created(events) THEN Append(ps, Page("live"))
    ELSE [k \in PageIds(ps) |-> IF Closed(events, k) THEN Page("dead") ELSE ps[k]]

TabCall(op, url, r, value) ==
    [op |-> op, url |-> url, r |-> r, value |-> value,
     tick |-> 1 - tabCall.tick]

\* The tab the browser shows once tab k is gone: the one it showed, or, if
\* that was k, another live tab if there is one.
ActiveWithout(k) ==
    IF activeTab # k THEN {activeTab}
    ELSE IF LivePages(pages) \ {k} # {} THEN LivePages(pages) \ {k}
    ELSE {Null, k}

\* The manager's fields and the browser's tabs after a call.
TabEffect(op, url, r, value) ==
    /\ Created(r.events) => Len(pages) < MaxPages
    /\ sessionPage' = r.sessionPage
    /\ lastNavigatedUrl' = r.last
    /\ pages' = PagesAfter(pages, r.events)
    /\ activeTab' \in IF Created(r.events) THEN {Len(pages) + 1}
                      ELSE IF \E k \in PageIds(pages) : Closed(r.events, k)
                      THEN ActiveWithout(CHOOSE k \in PageIds(pages) :
                                             Closed(r.events, k))
                      ELSE {activeTab}
    /\ tabCall' = TabCall(op, url, r, value)
    /\ UNCHANGED <<strategy, hasOnNewTabRequest, sbmVars, decided, appVars>>

GetOrCreateSessionPage ==
    \E url \in NavUrls \cup {NoUrl} :
    \E r \in { getOrCreateSessionPage(sessionPage, lastNavigatedUrl, strategy,
                     url, Outcomes(gap, createOk, gotoOk, "none")) :
                 gap \in GapOutcomes, createOk \in BOOLEAN, gotoOk \in BOOLEAN } :
        TabEffect("getOrCreateSessionPage", url, r, NoUrl)

NavigateTo ==
    \E url \in NavUrls :
    \E r \in { navigateTo(sessionPage, lastNavigatedUrl, url,
                     Outcomes(NoGap, FALSE, gotoOk, "none")) :
                 gotoOk \in BOOLEAN } :
        TabEffect("navigateTo", url, r, NoUrl)

RequestNewTab ==
    \E url \in NavUrls :
    \E r \in { requestNewTab(sessionPage, lastNavigatedUrl, hasOnNewTabRequest,
                     url, Outcomes(NoGap, createOk, gotoOk, cb)) :
                 createOk \in BOOLEAN, gotoOk \in BOOLEAN,
                 cb \in (IF hasOnNewTabRequest THEN {"true", "false", "throws"}
                         ELSE {"none"}) } :
        TabEffect("requestNewTab", url, r, NoUrl)

\* What a page can be showing when its URL is read.
PageUrls == {<<"about:blank">>, <<"https://", "example", ".com", "/p1">>}

GetCurrentUrl ==
    \E g \in { getCurrentUrl(sessionPage, lastNavigatedUrl,
                              Outcomes(NoGap, FALSE, FALSE, "none"), pageUrl) :
                pageUrl \in PageUrls \cup {UrlThrows} } :
        TabEffect("getCurrentUrl", NoUrl, g.r, g.value)

\* close() resolves only on a tab that is still there.
Cleanup ==
    \E closeOk \in (IF sessionPage \in LivePages(pages) THEN BOOLEAN
                    ELSE {FALSE}) :
        TabEffect("cleanup", NoUrl,
                  cleanup(sessionPage, lastNavigatedUrl, closeOk), NoUrl)

\* A tab crashes, hangs or is closed; if it was the active one, the browser
\* activates another tab, if there is one.
EnvPageDies ==
    \E k \in LivePages(pages) :
    \E next \in ActiveWithout(k) :
        /\ pages' = [pages EXCEPT ![k] = Page("dead")]
        /\ activeTab' = next
        /\ UNCHANGED <<sessionPage, lastNavigatedUrl, strategy,
                       hasOnNewTabRequest, tabCall, sbmVars, decided, appVars>>

\* The user opens a tab, which becomes the active one.
EnvUserTab ==
    /\ Len(pages) < MaxPages
    /\ pages' = Append(pages, Page("live"))
    /\ activeTab' = Len(pages) + 1
    /\ UNCHANGED <<sessionPage, lastNavigatedUrl, strategy,
                   hasOnNewTabRequest, tabCall, sbmVars, decided, appVars>>

\* The user brings another tab to the front.
EnvActivate ==
    \E k \in LivePages(pages) \ {activeTab} :
        /\ activeTab' = k
        /\ UNCHANGED <<sessionPage, lastNavigatedUrl, strategy,
                       hasOnNewTabRequest, pages, tabCall, sbmVars, decided, appVars>>

\* The browser manager as the tab manager sees it: not used.
SbmIdle ==
    /\ browser = Null
    /\ isConnectedToExternal = FALSE
    /\ persistentMode = TRUE
    /\ hasOnBrowserLaunch = FALSE
    /\ handles = <<>>
    /\ extStatus = "off"
    /\ lastCall = [op |-> "none", force |-> FALSE, resp |-> "none",
                   preBrowser |-> Null, preExt |-> FALSE, probe |-> NoProbe,
                   r |-> NoRes, tick |-> 0]

\* new TabSessionManager(browser, options): any strategy, with or without
\* confirmation callback; the browser has no tab or one tab.
InitTab ==
    /\ SbmIdle
    /\ sessionPage = Null
    /\ lastNavigatedUrl = NoUrl
    /\ strategy \in Strategies
    /\ hasOnNewTabRequest \in BOOLEAN
    /\ \/ pages = <<>> /\ activeTab = Null
       \/ pages = <<Page("live")>> /\ activeTab = 1
    /\ tabCall = NoTabCall
    /\ decided = NoDecision
    /\ AppIdle

NextTab ==
    \/ GetOrCreateSessionPage
    \/ NavigateTo
    \/ RequestNewTab
    \/ GetCurrentUrl
    \/ Cleanup
    \/ EnvPageDies
    \/ EnvUserTab
    \/ EnvActivate

SpecTab == InitTab /\ [][NextTab]_vars

\* The step is a call of a public method of the tab manager.
IsTabCall == tabCall'.tick # tabCall.tick

\* ------------------------------------------------ the decision functions
\* URL strings handed to shouldCreateNewTab.
DecideUrls ==
    { <<"https://", "mail.", "google", ".com">>,
      <<"https://", "docs.", "google", ".com">>,
      <<"https://", "github", ".com">>,
      <<"https://", "gist.", "github", ".com">>,
      <<"https://", "not", "github", ".com">>,
      <<"https://", "a", ".com">>,
      <<"https://", "a", ".com", "/p1">>,
      <<"https://", "a", ".com", "/p2">>,
      <<"HTTPS://", "a", ".com">>,
      <<"a", ".com">>,
      <<"mailto:", "x@", "y", ".com">>,
      <<"MAILTO:", "x@", "y", ".com">>,
      <<"tel:", "123">>,
      <<"javascript:", "void(0)">> }

\* The manager after a first getOrCreateSessionPage('example.com') on a
\* browser without tabs, everything resolving.
FirstPage ==
    getOrCreateSessionPage(Null, NoUrl, strategy, ExampleCom,
        [live |-> {1}, gap |-> NoGap, createOk |-> TRUE, newId |-> 1,
         gotoOk |-> TRUE, cb |-> "none"])

\* A manager of any strategy, about to be asked: just constructed, or
\* tracking its first page.
InitDecide ==
    /\ SbmIdle
    /\ strategy \in Strategies
    /\ hasOnNewTabRequest = FALSE
    /\ decided = NoDecision
    /\ AppIdle
    /\ \/ /\ sessionPage = Null
          /\ lastNavigatedUrl = NoUrl
          /\ pages = <<>>
          /\ activeTab = Null
          /\ tabCall = NoTabCall
       \/ /\ sessionPage = FirstPage.sessionPage
          /\ lastNavigatedUrl = FirstPage.last
          /\ pages = <<Page("live")>>
          /\ activeTab = 1
          /\ tabCall = [op |-> "getOrCreateSessionPage", url |-> ExampleCom,
                        r |-> FirstPage, value |-> NoUrl, tick |-> 1]

ShouldCreateNewTab ==
    \E currentUrl \in DecideUrls \cup {NoUrl}, targetUrl \in DecideUrls :
        /\ decided' = [fn |-> "shouldCreateNewTab", current |-> currentUrl,
                       target |-> targetUrl,
                       r |-> shouldCreateNewTab(strategy, currentUrl, targetUrl)]
        /\ UNCHANGED <<tabVars, sbmVars, appVars>>

NextDecide == ShouldCreateNewTab

SpecDecide == InitDecide /\ [][NextDecide]_vars


\* ------------------------- TabSessionManager: two calls at their awaits
\* Each action is the stretch of getOrCreateSessionPage (and of the private
\* methods it calls) from one await to the next; the two calls take turns
\* at these points only.
Become(c, r) ==
    /\ callers' = [callers EXCEPT ![c] = r]
    /\ UNCHANGED <<strategy, hasOnNewTabRequest, tabCall, sbmVars, decided,
                   agentVars, hybridVars>>

\* return this.sessionPage, lines 108, 119, 128.
ReturnsPage(c, sp) ==
    Caller("done", callers[c].url, Null, sp, FALSE, callers[c].created)

ThrowsOut(c) ==
    Caller("done", callers[c].url, Null, Null, TRUE, callers[c].created)

\* navigateTo(url) up to its await of goto, lines 136-149.
StartsNavigate(c, sp) ==
    IF sp = Null THEN ThrowsOut(c)
    ELSE Caller("goto", callers[c].url, sp, Null, FALSE, callers[c].created)

\* The call begins, lines 97-103, 286-293: isSessionPageValid answers false
\* at once without a session page, or awaits the page's evaluate.
BeginCall(c) ==
    /\ callers[c].pc = "idle"
    /\ \E url \in {NoUrl, ExampleCom} :
          Become(c, Caller("isSessionPageValid", url, sessionPage, Null,
                           FALSE, FALSE))
    /\ UNCHANGED <<sessionPage, lastNavigatedUrl, pages, activeTab>>

\* isSessionPageValid settles, lines 293-300, and the caller goes on, lines
\* 103-112 and 307-316.
Validated(c) ==
    /\ callers[c].pc = "isSessionPageValid"
    /\ LET me == callers[c]
           valid == me.page # Null /\ me.page \in LivePages(pages)
           sp == IF me.page # Null /\ ~valid THEN Null ELSE sessionPage
       IN  /\ sessionPage' = sp
           /\ Become(c, IF valid
                        THEN IF me.url # NoUrl
                                /\ shouldNavigateToUrl(lastNavigatedUrl, me.url)
                             THEN StartsNavigate(c, sp)
                             ELSE ReturnsPage(c, sp)
                        ELSE IF strategy = "always_new"
                        THEN Caller("findReusablePage", me.url, Null, Null,
                                    FALSE, FALSE)
                        ELSE Caller("getActivePage", me.url, Null, Null,
                                    FALSE, FALSE))
    /\ UNCHANGED <<lastNavigatedUrl, pages, activeTab>>

\* browser.getActivePage() settles, lines 314-321.
GotActivePage(c) ==
    /\ callers[c].pc = "getActivePage"
    /\ \E gap \in GapOutcomes :
          Become(c, IF gap.kind = "page"
                    THEN Caller("evaluate", callers[c].url, gap.page, Null,
                                FALSE, FALSE)
                    ELSE Caller("findReusablePage", callers[c].url, Null,
                                Null, FALSE, FALSE))
    /\ UNCHANGED <<sessionPage, lastNavigatedUrl, pages, activeTab>>

\* activePage.evaluate settles, lines 320-332.
Evaluated(c) ==
    /\ callers[c].pc = "evaluate"
    /\ Become(c, Caller("findReusablePage", callers[c].url,
                        IF callers[c].page \in LivePages(pages) THEN callers[c].page
                        ELSE Null,
                        Null, FALSE, FALSE))
    /\ UNCHANGED <<sessionPage, lastNavigatedUrl, pages, activeTab>>

\* findReusablePage has answered, lines 112-124: the page is adopted, or
\* createPage is called.
Found(c) ==
    /\ callers[c].pc = "findReusablePage"
    /\ LET me == callers[c]
       IN  IF me.page # Null
           THEN /\ sessionPage' = me.page
                /\ Become(c, IF me.url # NoUrl THEN StartsNavigate(c, me.page)
                             ELSE ReturnsPage(c, me.page))
           ELSE /\ sessionPage' = sessionPage
                /\ Become(c, Caller("createPage", me.url, Null, Null, FALSE,
                                    FALSE))
    /\ UNCHANGED <<lastNavigatedUrl, pages, activeTab>>

\* browser.createPage() settles, lines 124-128.
CreatedPage(c) ==
    /\ callers[c].pc = "createPage"
    /\ LET me == callers[c]
           new == Len(pages) + 1
       IN  \E createOk \in BOOLEAN :
             IF createOk
             THEN /\ pages' = Append(pages, Page("live"))
                  /\ activeTab' = new
                  /\ sessionPage' = new
                  /\ Become(c, IF me.url # NoUrl
                               THEN [StartsNavigate(c, new)
                                        EXCEPT !.created = TRUE]
                               ELSE [ReturnsPage(c, new)
                                        EXCEPT !.created = TRUE])
             ELSE /\ UNCHANGED <<pages, activeTab, sessionPage>>
                  /\ Become(c, ThrowsOut(c))
    /\ UNCHANGED lastNavigatedUrl

\* sessionPage.goto settles, lines 144-149, and the caller returns
\* this.sessionPage, lines 108, 119, 128.
WentTo(c) ==
    /\ callers[c].pc = "goto"
    /\ \E gotoOk \in (IF callers[c].page \in LivePages(pages) THEN BOOLEAN ELSE {FALSE}) :
          IF gotoOk
          THEN /\ lastNavigatedUrl' = normalizeUrl(callers[c].url)
               /\ Become(c, ReturnsPage(c, sessionPage))
          ELSE /\ UNCHANGED lastNavigatedUrl
               /\ Become(c, ThrowsOut(c))
    /\ UNCHANGED <<sessionPage, pages, activeTab>>

\* The session page crashes or is closed by the user while calls are in
\* flight.
RacePageDies ==
    /\ \E c \in Callers : callers[c].pc \notin {"idle", "done"}
    /\ \E k \in LivePages(pages) :
          pages' = [pages EXCEPT ![k] = Page("dead")]
    /\ UNCHANGED <<sessionPage, lastNavigatedUrl, activeTab, callers, strategy,
                   hasOnNewTabRequest, tabCall, sbmVars, decided, agentVars,
                   hybridVars>>

\* An instance with no valid session page: none tracked, or a tracked tab
\* that no longer answers; the browser has no other tab or one live tab.
InitRace ==
    /\ SbmIdle
    /\ lastNavigatedUrl = NoUrl
    /\ strategy \in Strategies
    /\ hasOnNewTabRequest = FALSE
    /\ \/ sessionPage = Null /\ pages = <<>> /\ activeTab = Null
       \/ sessionPage = Null /\ pages = <<Page("live")>> /\ activeTab = 1
       \/ sessionPage = 1 /\ pages = <<Page("dead")>> /\ activeTab = Null
    /\ tabCall = NoTabCall
    /\ decided = NoDecision
    /\ AppIdle

NextRace ==
    \/ \E c \in Callers : BeginCall(c)
    \/ \E c \in Callers : Validated(c)
    \/ \E c \in Callers : GotActivePage(c)
    \/ \E c \in Callers : Evaluated(c)
    \/ \E c \in Callers : Found(c)
    \/ \E c \in Callers : CreatedPage(c)
    \/ \E c \in Callers : WentTo(c)
    \/ RacePageDies

SpecRace == InitRace /\ [][NextRace]_vars

\* ------------------------------------------------- the agent route: actions
\* The loop's positions: idle (not started, or exited), calling (awaiting
\* the runAgent service), and settled (the awaited promise has resolved
\* or rejected and the loop's continuation is the next thing to run).
Settled == {"returned", "threw", "threwOther"}

\* No continuation is due: a request handler or a service step may run.
Quiet == \A l \in 1..MaxLoops : loops[l] \notin Settled

Running == {l \in 1..MaxLoops : loops[l] # "idle"}

\* A request or a loop step with what it was given; the rest of the
\* application stands still.
Stepped(op, status, thinking, message) ==
    /\ agentCall' = [op |-> op, status |-> status, thinking |-> thinking,
                     message |-> message, tick |-> 1 - agentCall.tick]
    /\ UNCHANGED <<sbmVars, tabVars, decided, hybridVars, callers>>

\* runAgent, lines 46-152: the handler runs up to the loop's first await.
RunAgent ==
    /\ Quiet
    /\ runAgentReturnsEarly(store) \/ Running # 1..MaxLoops
    /\ store' = runAgent(store)
    /\ loops' = IF runAgentReturnsEarly(store) THEN loops
                ELSE [loops EXCEPT
                        ![CHOOSE l \in 1..MaxLoops \ Running :
                            \A k \in 1..MaxLoops \ Running : l <= k] =
                                "calling"]
    /\ Stepped("runAgent", "INIT", FALSE, 0)
    /\ UNCHANGED <<currentAgent, queued>>

\* The service, while a loop awaits it, writes a state through the wrapper.
ServiceSetState ==
    /\ Quiet
    /\ \E l \in 1..MaxLoops : loops[l] = "calling"
    /\ \E status \in {"RUNNING", "END", "CALL_USER", "ERROR", "USER_STOPPED"},
          thinking \in BOOLEAN :
        /\ store' = wrappedSetState(store, [status |-> status,
                                            thinking |-> thinking])
        /\ Stepped("wrappedSetState", status, thinking, 0)
    /\ UNCHANGED <<loops, currentAgent, queued>>

\* The service registers its GUIAgent with the GUIAgentManager.
ServiceSetAgent ==
    /\ Quiet
    /\ \E l \in 1..MaxLoops : loops[l] = "calling"
    /\ currentAgent' = TRUE
    /\ UNCHANGED <<store, loops, queued, agentCall>>
    /\ UNCHANGED <<sbmVars, tabVars, decided, hybridVars, callers>>

\* The awaited service call returns or throws.
ServiceSettles(l) ==
    /\ Quiet
    /\ loops[l] = "calling"
    /\ \E outcome \in Settled : loops' = [loops EXCEPT ![l] = outcome]
    /\ \E agent \in {currentAgent, FALSE} : currentAgent' = agent
    /\ UNCHANGED <<store, queued, agentCall>>
    /\ UNCHANGED <<sbmVars, tabVars, decided, hybridVars, callers>>

\* The loop's continuation, lines 86-151.
LoopContinues(l) ==
    /\ loops[l] \in Settled
    /\ IF loops[l] = "returned"
       THEN /\ store' = afterRunAgent(store)
            /\ loops' = [loops EXCEPT
                            ![l] = IF takesNext(store) THEN "calling"
                                   ELSE "idle"]
            /\ Stepped("afterRunAgent", "INIT", FALSE, l)
       ELSE /\ store' = catchRunAgent(store,
                                      IF loops[l] = "threw"
                                      THEN "model request failed" ELSE NonError)
            /\ loops' = [loops EXCEPT ![l] = "idle"]
            /\ Stepped("catchRunAgent", "INIT", FALSE, l)
    /\ UNCHANGED <<currentAgent, queued>>

PauseRun ==
    /\ Quiet
    /\ store' = pauseRun(store, currentAgent)
    /\ Stepped("pauseRun", "INIT", FALSE, 0)
    /\ UNCHANGED <<loops, currentAgent, queued>>

ResumeRun ==
    /\ Quiet
    /\ store' = resumeRun(store, currentAgent)
    /\ Stepped("resumeRun", "INIT", FALSE, 0)
    /\ UNCHANGED <<loops, currentAgent, queued>>

StopRun ==
    /\ Quiet
    /\ store' = stopRun(store)
    /\ Stepped("stopRun", "INIT", FALSE, 0)
    /\ UNCHANGED <<loops, currentAgent, queued>>

\* Messages are numbered in the order they are given.
AddPendingMessage ==
    /\ Quiet
    /\ queued < MaxQueued
    /\ store' = addPendingMessage(store, queued + 1)
    /\ queued' = queued + 1
    /\ Stepped("addPendingMessage", "INIT", FALSE, queued + 1)
    /\ UNCHANGED <<loops, currentAgent>>

\* The application started; the browser managers are not in use.
InitApp ==
    /\ SbmIdle
    /\ TabIdle
    /\ decided = NoDecision
    /\ AppIdle

NextAgent ==
    \/ RunAgent
    \/ ServiceSetState
    \/ ServiceSetAgent
    \/ \E l \in 1..MaxLoops : ServiceSettles(l)
    \/ \E l \in 1..MaxLoops : LoopContinues(l)
    \/ PauseRun
    \/ ResumeRun
    \/ StopRun
    \/ AddPendingMessage

SpecAgent == InitApp /\ [][NextAgent]_vars

\* The event loop runs a due continuation, and (the case the liveness
\* statements are about) every service call returns or throws: a call
\* cannot settle while another loop's continuation is due, so its fairness
\* is strong.
FairAgent ==
    /\ SpecAgent
    /\ \A l \in 1..MaxLoops : WF_vars(LoopContinues(l))
    /\ \A l \in 1..MaxLoops : SF_vars(ServiceSettles(l))


\* ------------------------------------------------- HybridOperator: actions
HybridEffect(op, action, url, r) ==
    /\ browserOperator' = r.operator
    /\ browserSessionActive' = r.active
    /\ hybridCall' = [op |-> op, action |-> action, url |-> url,
                      preOperator |-> browserOperator,
                      preActive |-> browserSessionActive, r |-> r]
    /\ UNCHANGED <<sbmVars, tabVars, decided, agentVars, callers>>

\* The agent predicts a hybrid action, one a browser can execute, or one
\* of two that only the computer operator executes.
Execute ==
    \E action \in {"open_browser", "close_browser", "hotkey", "drag"}
                      \cup BROWSER_COMPATIBLE_ACTIONS :
    \E url \in (IF action \in {"open_browser", "navigate"}
                THEN BOOLEAN ELSE {FALSE}) :
    \E r \in { execute(browserOperator, browserSessionActive, action, url, o) :
                    o \in [hasBrowser : BOOLEAN, instanceOk : BOOLEAN,
                           navigateOk : BOOLEAN, browserOk : BOOLEAN,
                           computerOk : BOOLEAN] } :
        /\ HybridEffect("execute", action, url, r)
        /\ lastScreenParams' = TRUE

Screenshot ==
    \E r \in { screenshot(browserOperator, browserSessionActive, browserOk,
                           computerOk) :
                    browserOk \in BOOLEAN, computerOk \in BOOLEAN } :
        /\ HybridEffect("screenshot", "screenshot", FALSE, r)
        /\ UNCHANGED lastScreenParams

HybridCleanup ==
    \E cleanupOk \in BOOLEAN :
        /\ HybridEffect("cleanup", "cleanup", FALSE,
                        hybridCleanup(browserOperator, browserSessionActive,
                                      cleanupOk))
        /\ UNCHANGED lastScreenParams

NextHybrid ==
    \/ Execute
    \/ Screenshot
    \/ HybridCleanup

SpecHybrid == InitApp /\ [][NextHybrid]_vars


\* =================================================================== claims
\* Liveness as the design states it: the browser answers the probe, or it
\* is an empty browser ("no pages available"); any other failure is dead.
Alive(p) == (p.gap = "ok" /\ p.eval = "ok") \/ p.gap = NoPagesMsg

IsGet == lastCall.op = "getOrCreateBrowser"
IsClose == lastCall.op = "closeBrowser"
Evs == lastCall.r.events
Idx(name) == {i \in 1..Len(Evs) : Evs[i].ev = name}
Count(name) == Cardinality(Idx(name))
ProbeSucceeded == lastCall.resp = "ok"
HeldBefore == lastCall.preBrowser # Null
Returned == ~lastCall.r.threw

\* C1: when the debug-port probe succeeds, getOrCreateBrowser launches
\* nothing and does not invoke onBrowserLaunch; it returns the held handle as
\* 'reused' (isNewInstance false) if that handle is marked external and is
\* alive, and otherwise attaches a new handle, marks it external and returns
\* it as 'attached' (isNewInstance true).  Two successive calls with the
\* probe succeeding and the first handle still alive return the same handle,
\* the second as 'reused'.
C1_Call ==
    (IsGet /\ ProbeSucceeded) =>
        /\ Count("launch") = 0
        /\ Count("onBrowserLaunch") = 0
        /\ IF HeldBefore /\ lastCall.preExt /\ Alive(lastCall.probe)
           THEN /\ Returned
                /\ lastCall.r.mode = "reused"
                /\ ~lastCall.r.isNew
                /\ lastCall.r.h = lastCall.preBrowser
                /\ Count("attach") = 0
                /\ getBrowser = lastCall.preBrowser
                /\ isExternalBrowser
           ELSE /\ Count("attach") = 1
                /\ Returned <=> (\A i \in Idx("attach") : Evs[i].ok)
                /\ Returned =>
                     /\ lastCall.r.mode = "attached"
                     /\ lastCall.r.isNew
                     /\ \A i \in Idx("attach") : lastCall.r.h = Evs[i].h
                     /\ lastCall.r.h # lastCall.preBrowser
                     /\ handles[lastCall.r.h].kind = "remote"
                     /\ getBrowser = lastCall.r.h
                     /\ isExternalBrowser

C1_Successive ==
    (/\ IsGet /\ ProbeSucceeded /\ Returned
     /\ IsCall
     /\ lastCall'.op = "getOrCreateBrowser" /\ lastCall'.resp = "ok"
     /\ Alive(ProbeOf(handles, extStatus, lastCall.r.h)))
    => /\ ~lastCall'.r.threw
       /\ lastCall'.r.h = lastCall.r.h
       /\ lastCall'.r.mode = "reused"
       /\ ~lastCall'.r.isNew

C1_ExternalPriority == [](C1_Call) /\ [][C1_Successive]_vars

C1_Witness ==
    /\ IsGet /\ ProbeSucceeded /\ lastCall.r.mode = "reused"
    /\ lastCall.preExt /\ Len(handles) = 1

\* C2: every getOrCreateBrowser result tagged 'reused' carries the handle
\* held before the call, and isBrowserAlive was invoked on it in that call
\* and found a live browser; the held handle is never returned unprobed.
C2_ReusedIsAlive ==
    (IsGet /\ Returned
        /\ (lastCall.r.mode = "reused" \/ lastCall.r.h = lastCall.preBrowser)) =>
        /\ lastCall.r.mode = "reused"
        /\ HeldBefore
        /\ lastCall.r.h = lastCall.preBrowser
        /\ Alive(lastCall.probe)
        /\ \E i \in Idx("isBrowserAlive") :
               Evs[i].h = lastCall.r.h /\ Evs[i].ok

C2_Witness ==
    /\ IsGet /\ lastCall.r.mode = "reused"
    /\ ~lastCall.preExt /\ lastCall.probe.gap = NoPagesMsg


\* The call took the launch path: the debug-port probe failed and no live
\* non-external handle was held.
LaunchCase ==
    /\ IsGet /\ ~ProbeSucceeded
    /\ ~(HeldBefore /\ ~lastCall.preExt /\ Alive(lastCall.probe))

\* C3: on the launch path getOrCreateBrowser invokes onBrowserLaunch (if
\* configured) exactly once and before the launch, attempts exactly one
\* launch, and when the call returns the launched browser is the held
\* handle, not external, returned as 'launched' with isNewInstance true;
\* onBrowserLaunch is never invoked in a call that returns 'reused' or
\* 'attached'.
C3_LaunchPath ==
    /\ LaunchCase =>
        /\ Count("onBrowserLaunch") = (IF hasOnBrowserLaunch THEN 1 ELSE 0)
        /\ Count("attach") = 0
        /\ Count("launch") <= 1
        /\ \A i \in Idx("onBrowserLaunch") :
               /\ Evs[i].ok <=> Count("launch") = 1
               /\ \A j \in Idx("launch") : i < j
        /\ hasOnBrowserLaunch \/ Count("launch") = 1
        /\ Returned <=> (\E j \in Idx("launch") : Evs[j].ok)
        /\ Returned =>
             /\ lastCall.r.mode = "launched"
             /\ lastCall.r.isNew
             /\ \A j \in Idx("launch") : lastCall.r.h = Evs[j].h
             /\ lastCall.r.h # lastCall.preBrowser
             /\ handles[lastCall.r.h].kind = "local"
             /\ getBrowser = lastCall.r.h
             /\ ~isExternalBrowser
    /\ (IsGet /\ lastCall.r.mode \in {"reused", "attached"}) =>
             Count("onBrowserLaunch") = 0

C3_Witness ==
    /\ LaunchCase /\ Returned /\ hasOnBrowserLaunch
    /\ HeldBefore /\ ~lastCall.preExt /\ lastCall.r.mode = "launched"

\* C4: when the debug-port probe fails and the held handle is non-external
\* and alive, getOrCreateBrowser returns that handle as 'reused' with
\* isNewInstance false, launches and attaches nothing, does not invoke
\* onBrowserLaunch, and leaves the held handle and the external flag as
\* they were.
C4_PersistentReuse ==
    (IsGet /\ ~ProbeSucceeded /\ HeldBefore /\ ~lastCall.preExt
        /\ Alive(lastCall.probe)) =>
        /\ Returned
        /\ lastCall.r.mode = "reused"
        /\ ~lastCall.r.isNew
        /\ lastCall.r.h = lastCall.preBrowser
        /\ Count("launch") = 0
        /\ Count("attach") = 0
        /\ Count("onBrowserLaunch") = 0
        /\ getBrowser = lastCall.preBrowser
        /\ isExternalBrowser = lastCall.preExt

C4_Witness ==
    /\ IsGet /\ ~ProbeSucceeded /\ HeldBefore /\ ~lastCall.preExt
    /\ lastCall.probe.gap = NoPagesMsg /\ lastCall.r.mode = "reused"

\* The handle was marked external when the call began, or is an attached
\* (remote) browser object.
MarkedExternal(h) ==
    \/ lastCall.preExt /\ h = lastCall.preBrowser
    \/ handles[h].kind = "remote"

\* C5: close() is invoked on a handle marked external only by
\* closeBrowser(true).  closeBrowser(false) on an external handle invokes no
\* close(); closeBrowser(true) invokes close() on it exactly once; both
\* leave getBrowser() = null and isExternalBrowser() = false.
C5_ExternalClose ==
    /\ \A i \in Idx("close") :
           MarkedExternal(Evs[i].h) => (IsClose /\ lastCall.force)
    /\ (IsClose /\ HeldBefore /\ lastCall.preExt) =>
           /\ getBrowser = Null
           /\ ~isExternalBrowser
           /\ IF lastCall.force
              THEN /\ Count("close") = 1
                   /\ \A i \in Idx("close") : Evs[i].h = lastCall.preBrowser
              ELSE Count("close") = 0

C5_Witness ==
    /\ IsClose /\ HeldBefore /\ lastCall.preExt /\ ~lastCall.force
    /\ ~persistentMode

C7_BestEffortClose ==
    IsClose =>
        /\ Returned
        /\ Count("close") >= 1 => (getBrowser = Null /\ ~isExternalBrowser)
        /\ ~HeldBefore =>
              /\ Evs = <<>>
              /\ getBrowser = lastCall.preBrowser
              /\ isExternalBrowser = lastCall.preExt

C7_Witness ==
    /\ IsClose /\ \E i \in Idx("close") : ~Evs[i].ok

\* C8: isDebugPortActive never throws and changes neither the held handle
\* nor the external flag; it returns true exactly when the endpoint answers
\* with a success status and a readable JSON body.
C8_ProbeAbsorbs ==
    /\ lastCall.op = "isDebugPortActive" =>
        /\ Returned
        /\ Evs = <<>>
        /\ getBrowser = lastCall.preBrowser
        /\ isExternalBrowser = lastCall.preExt
        /\ lastCall.r.mode = (IF lastCall.resp = "ok" THEN "true" ELSE "false")
    /\ IsGet =>
        /\ Count("isDebugPortActive") = 1
        /\ Evs[1].ev = "isDebugPortActive"
        /\ Evs[1].ok <=> lastCall.resp = "ok"
        /\ Returned \/ Len(Evs) > 1

C8_Witness ==
    /\ lastCall.op = "isDebugPortActive" /\ lastCall.resp = "bad_body"
    /\ HeldBefore

\* C9: a failed launch or attach makes getOrCreateBrowser throw; the call
\* makes at most one launch or attach attempt; the handle that failed is not
\* the held handle afterwards and the external flag is what it was.
C9_FailurePropagates ==
    IsGet =>
        /\ Count("launch") + Count("attach") <= 1
        /\ \A i \in Idx("launch") \cup Idx("attach") :
               ~Evs[i].ok =>
                   /\ lastCall.r.threw
                   /\ getBrowser # Evs[i].h
                   /\ isExternalBrowser = lastCall.preExt

C9_Witness ==
    /\ IsGet /\ lastCall.preExt
    /\ \E i \in Idx("launch") : ~Evs[i].ok

\* C10: disconnect clears the held handle and the external flag from every
\* state and invokes close() on nothing; the next getOrCreateBrowser does
\* not return the dropped handle and is not tagged 'reused'.
C10_Call ==
    lastCall.op = "disconnect" =>
        /\ Returned
        /\ getBrowser = Null
        /\ ~isExternalBrowser
        /\ Evs = <<>>

C10_Next ==
    (lastCall.op = "disconnect" /\ IsCall
        /\ lastCall'.op = "getOrCreateBrowser") =>
        /\ lastCall'.r.mode # "reused"
        /\ lastCall.preBrowser # Null => lastCall'.r.h # lastCall.preBrowser

C10_Disconnect == [](C10_Call) /\ [][C10_Next]_vars

C10_Witness ==
    /\ lastCall.op = "disconnect" /\ HeldBefore /\ lastCall.preExt
    /\ Alive(ProbeOf(handles, extStatus, lastCall.preBrowser))

\* ------------------------------------------------- claims: tab sessions
TCount(events, e) ==
    Cardinality({i \in 1..Len(events) : events[i].ev = e})

\* The call navigated: it invoked goto, whether or not the goto resolved.
Navigated(r) == TCount(r.events, "goto") > 0

\* The call's navigation resolved.
NavigatedOk(r) ==
    \E i \in 1..Len(r.events) : r.events[i].ev = "goto" /\ r.events[i].ok

IsGetPage == IsTabCall /\ tabCall'.op = "getOrCreateSessionPage"

\* The call found its session page answering the liveness probe.
SessionAnswered(sp, r) ==
    sp # Null /\ r.events # <<>> /\ r.events[1] = TEv("evaluate", sp, TRUE, NoUrl)

\* The URL carries a scheme.
HasScheme(url) == url # <<>> /\ Head(url) \in SchemePieces

\* The URL as the browser is to be given it: "https://" in front of a URL
\* without scheme.
WithScheme(url) == IF HasScheme(url) THEN url ELSE <<"https://">> \o url

\* The target differs by origin or path from the last navigated target.
DiffersFromLast(last, url) ==
    \/ last = NoUrl
    \/ ~ParseUrl(last).ok
    \/ ~ParseUrl(WithScheme(url)).ok
    \/ ParseUrl(last).origin # ParseUrl(WithScheme(url)).origin
    \/ ParseUrl(last).pathname # ParseUrl(WithScheme(url)).pathname

\* C11: while the session page passes the liveness probe,
\* getOrCreateSessionPage creates no page and adopts no other tab under any
\* strategy; it returns that page, and navigates it only if initialUrl is
\* given and differs by origin or path from the last navigated target.
C11_Call ==
    IsGetPage /\ SessionAnswered(sessionPage, tabCall'.r) =>
        LET r == tabCall'.r IN
        /\ TCount(r.events, "createPage") = 0
        /\ TCount(r.events, "getActivePage") = 0
        /\ sessionPage' = sessionPage
        /\ ~r.threw => r.ret = sessionPage
        /\ \A i \in 1..Len(r.events) :
               r.events[i].ev = "goto" => r.events[i].pg = sessionPage
        /\ Navigated(r) =>
               tabCall'.url # NoUrl
               /\ DiffersFromLast(lastNavigatedUrl, tabCall'.url)

C11_ValidSessionReused == [][C11_Call]_vars

\* C12: after getOrCreateSessionPage(u) has navigated the session page, a
\* second getOrCreateSessionPage(u) with the same URL string navigates
\* nothing as long as the session page stays alive.
C12_Call ==
    /\ IsGetPage
    /\ tabCall.op = "getOrCreateSessionPage"
    /\ tabCall.url = tabCall'.url
    /\ NavigatedOk(tabCall.r)
    /\ SessionAnswered(sessionPage, tabCall'.r)
    => ~Navigated(tabCall'.r)

C12_Idempotent == [][C12_Call]_vars

\* The page createPage opens in this step.
NewPage == Len(pages) + 1

\* The call invoked goto exactly once: on page pg, with this URL.
OneGoto(r, pg, url) ==
    /\ TCount(r.events, "goto") = 1
    /\ \E i \in 1..Len(r.events) :
           /\ r.events[i].ev = "goto"
           /\ r.events[i].pg = pg
           /\ r.events[i].url = url

\* The browser has no active page that could be adopted.
NothingToAdopt == activeTab = Null \/ pages[activeTab].status # "live"

HttpsExampleCom == <<"https://", "example", ".com">>

\* C13: on a fresh manager whose browser has no active page to adopt,
\* getOrCreateSessionPage('example.com') calls createPage exactly once;
\* once the page is there it navigates exactly once, to
\* 'https://example.com', and it returns the created page, which is then
\* the session page.
C13_Call ==
    /\ IsGetPage
    /\ tabCall.op = "none"
    /\ NothingToAdopt
    /\ tabCall'.url = ExampleCom
    => LET r == tabCall'.r IN
       /\ TCount(r.events, "createPage") = 1
       /\ Created(r.events) => OneGoto(r, NewPage, HttpsExampleCom)
       /\ ~Created(r.events) => ~Navigated(r)
       /\ ~r.threw => /\ NavigatedOk(r)
                      /\ r.ret = NewPage
                      /\ sessionPage' = NewPage
                      /\ lastNavigatedUrl' = HttpsExampleCom

C13_FreshCreatesOnce == [][C13_Call]_vars

C13_Witness ==
    /\ tabCall.op = "getOrCreateSessionPage"
    /\ tabCall.url = ExampleCom
    /\ Len(pages) = 1
    /\ Len(tabCall.r.events) >= 2
    /\ tabCall.r.events[Len(tabCall.r.events) - 1]
           = TEv("createPage", 1, TRUE, NoUrl)
    /\ tabCall.r.events[Len(tabCall.r.events)]
           = TEv("goto", 1, TRUE, HttpsExampleCom)
    /\ tabCall.r.ret = 1
    /\ sessionPage = 1

\* The call adopted the browser's active page: getActivePage resolved to a
\* page and that page answered the probe.
AdoptedPage(r) ==
    {r.events[i].pg : i \in {j \in 1..(Len(r.events) - 1) :
        /\ r.events[j].ev = "getActivePage" /\ r.events[j].ok
        /\ r.events[j].pg # Null
        /\ r.events[j + 1] = TEv("evaluate", r.events[j].pg, TRUE, NoUrl)}}

\* getActivePage resolved to the active page and that page answers.
ActiveAnswered(r) ==
    \E i \in 1..Len(r.events) :
        /\ r.events[i].ev = "getActivePage" /\ r.events[i].ok
        /\ r.events[i].pg # Null
        /\ pages[r.events[i].pg].status = "live"

\* C14: without a valid session page, getOrCreateSessionPage under 'smart'
\* or 'always_reuse' adopts the browser's active page if it answers the
\* probe, creating nothing; under 'always_new' it never queries or adopts
\* the active page; createPage is called, exactly once, only when no page
\* was adopted (getActivePage threw or resolved to nothing, or the active
\* page did not answer); with initialUrl, the adopted or created page is
\* navigated to it.
C14_Call ==
    IsGetPage /\ ~SessionAnswered(sessionPage, tabCall'.r) =>
        LET r == tabCall'.r
            url == tabCall'.url
        IN  /\ strategy = "always_new" =>
                   /\ TCount(r.events, "getActivePage") = 0
                   /\ AdoptedPage(r) = {}
                   /\ sessionPage' \in {Null, NewPage}
            /\ strategy # "always_new" =>
                   /\ TCount(r.events, "getActivePage") = 1
                   /\ ActiveAnswered(r) <=> AdoptedPage(r) # {}
            /\ AdoptedPage(r) # {} =>
                   /\ AdoptedPage(r) = {activeTab}
                   /\ sessionPage' = activeTab
                   /\ TCount(r.events, "createPage") = 0
                   /\ ~r.threw => r.ret = activeTab
            /\ AdoptedPage(r) = {} =>
                   /\ TCount(r.events, "createPage") = 1
                   /\ Created(r.events) => sessionPage' = NewPage
                   /\ ~r.threw => r.ret = NewPage
            /\ IF url # NoUrl /\ (AdoptedPage(r) # {} \/ Created(r.events))
               THEN OneGoto(r, sessionPage', normalizeUrl(url))
               ELSE ~Navigated(r)

IsNavigateTo == IsTabCall /\ tabCall'.op = "navigateTo"
IsRequestNewTab == IsTabCall /\ tabCall'.op = "requestNewTab"

\* The confirmation callback was asked and resolved false.
Declined(r) ==
    /\ r.events # <<>>
    /\ r.events[1].ev = "onNewTabRequest"
    /\ ~r.events[1].ok
    /\ r.err # "onNewTabRequest"

\* C15: navigateTo without a tracked session page fails with the 'No
\* session page available' error, navigates nothing, creates nothing and
\* leaves the session page and the last navigated target as they were; the
\* same error reaches the caller of requestNewTab when the callback
\* resolves false and no session page is tracked.
C15_Call ==
    /\ IsNavigateTo /\ sessionPage = Null =>
           /\ tabCall'.r.threw
           /\ tabCall'.r.err = NoSessionMsg
           /\ tabCall'.r.events = <<>>
           /\ sessionPage' = Null
           /\ lastNavigatedUrl' = lastNavigatedUrl
           /\ pages' = pages
    /\ IsRequestNewTab /\ sessionPage = Null /\ Declined(tabCall'.r) =>
           /\ tabCall'.r.threw
           /\ tabCall'.r.err = NoSessionMsg
           /\ tabCall'.r.events = <<Asked(tabCall'.url, FALSE)>>
           /\ sessionPage' = Null
           /\ lastNavigatedUrl' = lastNavigatedUrl
           /\ pages' = pages

C15_NoSessionError == [][C15_Call]_vars

\* requestNewTab, declined, on a manager that tracks no page while the
\* browser has a live tab.
C15_Witness ==
    /\ tabCall.op = "requestNewTab"
    /\ tabCall.r.threw
    /\ tabCall.r.err = NoSessionMsg
    /\ tabCall.r.events = <<Asked(tabCall.url, FALSE)>>
    /\ sessionPage = Null
    /\ LivePages(pages) # {}

\* C16: a successful navigateTo(url) navigates the tracked session page,
\* never a new tab, to the normalized URL ('https://' put in front exactly
\* when url carries no scheme, a URL with a scheme left as it is) and
\* records exactly that URL as the last navigated target; if the
\* navigation fails the error propagates and the last navigated target
\* keeps its value.
C16_Call ==
    IsNavigateTo /\ sessionPage # Null =>
        LET r == tabCall'.r
            normalized == WithScheme(tabCall'.url)
        IN  /\ TCount(r.events, "createPage") = 0
            /\ sessionPage' = sessionPage
            /\ OneGoto(r, sessionPage, normalized)
            /\ ~r.threw => NavigatedOk(r) /\ lastNavigatedUrl' = normalized
            /\ ~NavigatedOk(r) =>
                   r.threw /\ lastNavigatedUrl' = lastNavigatedUrl

C16_NavigateNormalized == [][C16_Call]_vars

\* C17: requestNewTab with a callback that resolves false creates no page:
\* the callback is invoked once, with the URL; the existing session page is
\* navigated to the URL, is returned, and stays the session page.
C17_Call ==
    IsRequestNewTab /\ Declined(tabCall'.r) =>
        LET r == tabCall'.r
            url == tabCall'.url
        IN  /\ hasOnNewTabRequest
            /\ TCount(r.events, "createPage") = 0
            /\ pages' = pages
            /\ TCount(r.events, "onNewTabRequest") = 1
            /\ r.events[1] = Asked(url, FALSE)
            /\ sessionPage' = sessionPage
            /\ sessionPage # Null => OneGoto(r, sessionPage, normalizeUrl(url))
            /\ ~r.threw => /\ sessionPage # Null
                           /\ NavigatedOk(r)
                           /\ r.ret = sessionPage
                           /\ getSessionPage' = sessionPage

C17_DeclinedReuses == [][C17_Call]_vars

C17_Witness ==
    /\ tabCall.op = "requestNewTab"
    /\ Declined(tabCall.r)
    /\ ~tabCall.r.threw
    /\ Len(pages) = 2
    /\ sessionPage = 1
    /\ tabCall.r.ret = 1
    /\ tabCall.r.events = <<Asked(tabCall.url, FALSE),
                            TEv("goto", 1, TRUE, normalizeUrl(tabCall.url))>>

\* The confirmation callback did not stand in the way: there is none, or it
\* resolved true.
Approved(r) ==
    \/ ~hasOnNewTabRequest
    \/ r.events # <<>> /\ r.events[1].ev = "onNewTabRequest" /\ r.events[1].ok

\* C18: requestNewTab without callback, or with one that resolves true,
\* calls createPage exactly once, navigates the new page to the normalized
\* URL and makes it the session page in place of the previous one:
\* getSessionPage() then returns the new page.  If createPage or the
\* navigation fails, the error propagates and the session page and the last
\* navigated target are as before.
C18_Call ==
    IsRequestNewTab /\ Approved(tabCall'.r) =>
        LET r == tabCall'.r
            url == tabCall'.url
        IN  /\ TCount(r.events, "createPage") = 1
            /\ IF Created(r.events)
               THEN OneGoto(r, NewPage, normalizeUrl(url))
               ELSE ~Navigated(r)
            /\ IF NavigatedOk(r)
               THEN /\ ~r.threw
                    /\ r.ret = NewPage
                    /\ sessionPage' = NewPage
                    /\ getSessionPage' = NewPage
                    /\ getSessionPage' # sessionPage
               ELSE /\ r.threw
                    /\ sessionPage' = sessionPage
                    /\ lastNavigatedUrl' = lastNavigatedUrl

C18_NewTabReplaces == [][C18_Call]_vars

\* A second page has replaced the first as the session page.
C18_Witness ==
    /\ tabCall.op = "requestNewTab"
    /\ ~tabCall.r.threw
    /\ Created(tabCall.r.events)
    /\ tabCall.r.events[1] = Asked(tabCall.url, TRUE)
    /\ tabCall.r.ret = 2
    /\ sessionPage = 2
    /\ pages[1].status = "live"

\* ------------------------------------------- claims: the decision function
IsDecision == decided.fn = "shouldCreateNewTab"

\* The host matches an entry of the workspace-domain list.
MatchesEntry(hostname, domain) == Includes(hostname, domain)

\* C19: under 'smart', for parseable current and target URLs with
\* different hostnames and a target that matches no always-isolate pattern,
\* shouldCreateNewTab returns true exactly when current host and target
\* host match distinct entries of the workspace-domain list.
C19_DistinctWorkspaces ==
    LET current == ParseUrl(decided.current)
        target == ParseUrl(decided.target)
    IN  /\ IsDecision
        /\ strategy = "smart"
        /\ decided.current # NoUrl
        /\ current.ok /\ target.ok
        /\ current.hostname # target.hostname
        /\ ~MatchesNewTabPattern(decided.target)
        => /\ ~decided.r.threw
           /\ decided.r.value <=>
                  \E d1, d2 \in WORKSPACE_DOMAINS :
                      /\ d1 # d2
                      /\ MatchesEntry(current.hostname, d1)
                      /\ MatchesEntry(target.hostname, d2)

\* The target starts with mailto:, tel: or javascript:, in any case.
StartsWithIsolating(url) ==
    url # <<>> /\ Head(url) \in {"mailto:", "MAILTO:", "tel:", "javascript:"}

\* C20: under 'smart', shouldCreateNewTab returns true for every target
\* that starts with mailto:, tel: or javascript: whatever the current URL,
\* null included; for every other target it returns false when the current
\* URL is null, when both have the same hostname, and when either fails to
\* parse; it never throws.
C20_PatternsThenReuse ==
    IsDecision /\ strategy = "smart" =>
        LET current == ParseUrl(decided.current)
            target == ParseUrl(decided.target)
        IN  /\ ~decided.r.threw
            /\ StartsWithIsolating(decided.target) => decided.r.value
            /\ /\ ~StartsWithIsolating(decided.target)
               /\ \/ decided.current = NoUrl
                  \/ ~current.ok
                  \/ ~target.ok
                  \/ current.hostname = target.hostname
               => ~decided.r.value

C20_Witness ==
    /\ IsDecision
    /\ strategy = "smart"
    /\ decided.current = NoUrl
    /\ decided.target = <<"MAILTO:", "x@", "y", ".com">>
    /\ decided.r.value

\* --------------------------------------- claims: the launched browser
\* C26: after getOrCreateBrowser has returned mode 'launched', with the
\* launched browser serving the debug endpoint, and while that browser stays
\* alive and responsive, the next getOrCreateBrowser returns the very same
\* handle with mode 'reused', launches and attaches nothing, and
\* isExternalBrowser() stays false.
C26_Call ==
    /\ IsCall
    /\ lastCall'.op = "getOrCreateBrowser"
    /\ lastCall.op = "getOrCreateBrowser"
    /\ ~lastCall.r.threw
    /\ lastCall.r.mode = "launched"
    /\ browser = lastCall.r.h
    /\ handles[browser].bound
    /\ StatusOf(handles, extStatus, browser) = "live"
    => /\ ~lastCall'.r.threw
       /\ lastCall'.r.mode = "reused"
       /\ lastCall'.r.h = browser
       /\ browser' = browser
       /\ Constructs(lastCall'.r.events) = 0
       /\ ~isExternalBrowser'

C26_LaunchedReused == [][C26_Call]_vars

\* ------------------------------------- claims: decisions, cleanup, reading
\* C21: shouldCreateNewTab is a pure decision function: it changes neither
\* the session page nor the last navigated target and calls nothing on the
\* browser or a page; under 'always_reuse' it returns false and under
\* 'always_new' true for every input, a null current URL and unparseable
\* URLs included.
C21_Call ==
    decided' # decided =>
        /\ decided'.fn = "shouldCreateNewTab"
        /\ sessionPage' = sessionPage
        /\ lastNavigatedUrl' = lastNavigatedUrl
        /\ pages' = pages /\ activeTab' = activeTab
        /\ tabCall' = tabCall
        /\ ~decided'.r.threw
        /\ strategy = "always_reuse" => ~decided'.r.value
        /\ strategy = "always_new" => decided'.r.value

C21_PureDecision == [][C21_Call]_vars

\* Asked, while a page is tracked, about a null current URL: 'always_new'
\* says true for an unparseable target, 'always_reuse' false for mailto:.
C21_Witness ==
    /\ IsDecision
    /\ sessionPage = 1
    /\ decided.current = NoUrl
    /\ \/ /\ strategy = "always_new"
          /\ decided.target = <<"a", ".com">>
          /\ decided.r.value
       \/ /\ strategy = "always_reuse"
          /\ decided.target = <<"mailto:", "x@", "y", ".com">>
          /\ ~decided.r.value

IsCleanup == IsTabCall /\ tabCall'.op = "cleanup"
IsGetCurrentUrl == IsTabCall /\ tabCall'.op = "getCurrentUrl"

\* C22: cleanup() never throws and, from every reachable state, leaves the
\* session page and the last navigated target null; a tracked session page
\* is closed exactly once, and a failing close() does not keep the state
\* from being cleared.
C22_Call ==
    IsCleanup =>
        LET r == tabCall'.r IN
        /\ ~r.threw
        /\ sessionPage' = Null
        /\ lastNavigatedUrl' = NoUrl
        /\ IF sessionPage # Null
           THEN /\ Len(r.events) = 1
                /\ r.events[1].ev = "close"
                /\ r.events[1].pg = sessionPage
           ELSE r.events = <<>>

C22_CleanupClears == [][C22_Call]_vars

\* The pages on which the call invoked close(), resolved or not.
CloseTried(r) ==
    {r.events[i].pg : i \in {j \in 1..Len(r.events) : r.events[j].ev = "close"}}

\* C23: after cleanup() getSessionPage() returns null, and the page the next
\* getOrCreateSessionPage() returns is never the page that cleanup() closed
\* or tried to close.
C23_Call ==
    /\ IsCleanup => getSessionPage' = Null
    /\ IsGetPage /\ tabCall.op = "cleanup" /\ ~tabCall'.r.threw =>
           /\ tabCall'.r.ret \notin CloseTried(tabCall.r)
           /\ sessionPage' \notin CloseTried(tabCall.r)

C23_FreshAfterCleanup == [][C23_Call]_vars

\* C24: getCurrentUrl never throws; it returns null when no session page is
\* tracked, when the session page fails the liveness probe, or when reading
\* the URL fails, and otherwise the URL of the tracked session page.
C24_Call ==
    IsGetCurrentUrl =>
        LET r == tabCall'.r
            value == tabCall'.value
        IN  /\ ~r.threw
            /\ sessionPage = Null => value = NoUrl /\ r.events = <<>>
            /\ sessionPage # Null /\ pages[sessionPage].status # "live" =>
                   /\ value = NoUrl
                   /\ TCount(r.events, "url") = 0
            /\ sessionPage # Null /\ pages[sessionPage].status = "live" =>
                   /\ Len(r.events) = 2
                   /\ r.events[1] = TEv("evaluate", sessionPage, TRUE, NoUrl)
                   /\ r.events[2].ev = "url"
                   /\ r.events[2].pg = sessionPage
                   /\ value = IF r.events[2].ok THEN r.events[2].url ELSE NoUrl
                   /\ r.events[2].ok => value # NoUrl
                   /\ sessionPage' = sessionPage
            /\ lastNavigatedUrl' = lastNavigatedUrl

C24_CurrentUrlOrNull == [][C24_Call]_vars

\* The URL of a live session page was returned.
C24_Witness ==
    /\ tabCall.op = "getCurrentUrl"
    /\ sessionPage = 2
    /\ tabCall.r.events = <<TEv("evaluate", 2, TRUE, NoUrl),
                            TEv("url", 2, TRUE, tabCall.value)>>
    /\ tabCall.value = <<"https://", "example", ".com", "/p1">>

\* ---------------------------------------- claims: the session as a whole
\* C25: with 'always_new' every navigation made through navigateTo or
\* through getOrCreateSessionPage with a URL happens on a page created for
\* that navigation, never on a page that existed before the call.
C25_Call ==
    /\ IsTabCall
    /\ strategy = "always_new"
    /\ tabCall'.op \in {"navigateTo", "getOrCreateSessionPage"}
    => \A i \in 1..Len(tabCall'.r.events) :
           tabCall'.r.events[i].ev = "goto" =>
               /\ Created(tabCall'.r.events)
               /\ tabCall'.r.events[i].pg = NewPage

C25_AlwaysNewFreshPage == [][C25_Call]_vars

\* Event i of the call came after the page it concerns answered the probe.
ProbedBefore(events, i) ==
    \E j \in 1..(i - 1) : events[j] = TEv("evaluate", events[i].pg, TRUE, NoUrl)

\* C27: every operation that uses the tracked session page runs the
\* liveness probe on it in the same call before relying on it: no call
\* navigates, reads or returns the tracked session page unless the page has
\* just passed the probe.
C27_Call ==
    IsTabCall /\ sessionPage # Null =>
        LET r == tabCall'.r IN
        /\ \A i \in 1..Len(r.events) :
               r.events[i].ev \in {"goto", "url"} /\ r.events[i].pg = sessionPage
                   => ProbedBefore(r.events, i)
        /\ ~r.threw /\ r.ret = sessionPage =>
               \E j \in 1..Len(r.events) :
                   r.events[j] = TEv("evaluate", sessionPage, TRUE, NoUrl)

C27_ProbedBeforeUse == [][C27_Call]_vars

\* The call's navigation of page pg resolved.
NavigatedOkOn(r, pg) ==
    \E i \in 1..Len(r.events) :
        r.events[i].ev = "goto" /\ r.events[i].ok /\ r.events[i].pg = pg

\* C28: the last navigated target never refers to a navigation made on a
\* page that is no longer the tracked session page: whenever a call changes
\* the tracked page, the last navigated target is null afterwards or was
\* recorded by a navigation of the new page in that call.
C28_Call ==
    IsTabCall /\ sessionPage' # sessionPage =>
        \/ lastNavigatedUrl' = NoUrl
        \/ NavigatedOkOn(tabCall'.r, sessionPage')

C28_TargetOfTrackedPage == [][C28_Call]_vars

\* The URL begins with http:// or https://.
BeginsHttp(url) ==
    url # <<>> /\ Head(url) \in {"http://", "https://", "HTTPS://"}

\* C29: the last navigated target is null or a normalized URL (one that
\* begins with http:// or https://), equal to the URL that was passed to
\* goto in the most recent successful navigation, whichever operation made
\* it.
C29_Call ==
    IsTabCall =>
        LET r == tabCall'.r IN
        /\ lastNavigatedUrl' = NoUrl \/ BeginsHttp(lastNavigatedUrl')
        /\ \A i \in 1..Len(r.events) :
               r.events[i].ev = "goto" /\ r.events[i].ok =>
                   lastNavigatedUrl' = r.events[i].url
        /\ ~NavigatedOk(r) => lastNavigatedUrl' \in {lastNavigatedUrl, NoUrl}

C29_TargetNormalized == [][C29_Call]_vars

\* C30: the tracked session page goes from null to non-null only inside
\* getOrCreateSessionPage, once a page has been adopted or created, and
\* from non-null to null only through a failed liveness probe or through
\* cleanup(); nothing else makes either transition.
C30_Step ==
    /\ sessionPage = Null /\ sessionPage' # Null =>
           /\ IsGetPage
           /\ \/ AdoptedPage(tabCall'.r) = {sessionPage'}
              \/ Created(tabCall'.r.events) /\ sessionPage' = NewPage
    /\ sessionPage # Null /\ sessionPage' = Null =>
           /\ IsTabCall
           /\ \/ tabCall'.op = "cleanup"
              \/ TEv("evaluate", sessionPage, FALSE, NoUrl)
                     \in {tabCall'.r.events[i] : i \in 1..Len(tabCall'.r.events)}

C30_TwoStates == [][C30_Step]_vars

\* ------------------------------------- claims: the manager's consistency
\* C32: in every reachable state, also after a failed attach, launch or
\* close, the external flag implies a held handle; the manager holds at
\* most one handle, a browser object it constructed; and the handle a
\* successful getOrCreateBrowser returned is the one getBrowser() returns
\* right afterwards.
C32_Consistent ==
    /\ isExternalBrowser => getBrowser # Null
    /\ getBrowser \in {Null} \cup Ids(handles)
    /\ IsGet /\ Returned => lastCall.r.h # Null /\ getBrowser = lastCall.r.h

\* A call in which the attach, the launch or the close failed.
C32_Witness ==
    /\ \E i \in 1..Len(Evs) : Evs[i].ev \in {"attach", "launch", "close"}
                              /\ ~Evs[i].ok
    /\ lastCall.preBrowser # Null
    /\ lastCall.preExt

\* C33: the liveness probe absorbs every failure: isBrowserAlive returns
\* true exactly when getActivePage and evaluate both succeed or the failure
\* is 'No pages available', false for every other failure, and lets no
\* exception escape into getOrCreateBrowser, whatever value is thrown.
C33_ProbeNeverThrows ==
    IsGet =>
        \A i \in Idx("isBrowserAlive") :
            /\ Evs[i].ok = Alive(lastCall.probe)
            /\ i < Len(Evs) \/ Returned


\* ------------------------------------------------- claims: the agent route
IsAgentStep(op) == agentCall'.tick # agentCall.tick /\ agentCall'.op = op

\* The sequence holds distinct messages in the order they were given.
Increasing(q) == \A i, j \in 1..Len(q) : i < j => q[i] < q[j]

QueueUntouched ==
    /\ store'.pendingMessages = store.pendingMessages
    /\ store'.messages = store.messages
    /\ store'.instructions = store.instructions

\* The loop of the step, and whether it exits with it.
Exits(l) == loops[l] # "idle" /\ loops'[l] = "idle"

\* C34: at most one agent loop is executing at any time: a runAgent request
\* that arrives while a started loop has not exited starts no second loop.
C34_OneLoop == Cardinality(Running) <= 1

\* C35: queued messages are consumed first-in first-out without loss or
\* duplication: addPendingMessage appends its message at the tail; a
\* dequeue removes exactly the head, makes it the instructions and appends
\* exactly one human message with it; no other step of the loop, the
\* service, runAgent, pauseRun or resumeRun touches the queue; so the
\* consumed messages followed by the waiting ones are in the order given,
\* each once.
C35_Fifo ==
    [][/\ IsAgentStep("addPendingMessage") =>
            /\ store'.pendingMessages =
                   Append(store.pendingMessages, agentCall'.message)
            /\ store'.messages = store.messages
            /\ store'.instructions = store.instructions
       /\ IsAgentStep("afterRunAgent") =>
            \/ QueueUntouched
            \/ /\ store.pendingMessages # <<>>
               /\ store'.pendingMessages = Tail(store.pendingMessages)
               /\ store'.instructions = Head(store.pendingMessages)
               /\ store'.messages =
                      Append(store.messages, Head(store.pendingMessages))
       /\ agentCall'.op \notin {"addPendingMessage", "afterRunAgent",
                                "stopRun"} => QueueUntouched
       /\ Increasing(store'.messages \o store'.pendingMessages)
      ]_vars

\* A message was queued while the first queued one was being worked on, and
\* both were taken up.
C35_Witness ==
    /\ agentCall.op = "afterRunAgent"
    /\ store.messages = <<1, 2>>
    /\ store.instructions = 2
    /\ store.pendingMessages = <<>>

\* C36: stopRun empties the queue; after it, with no new runAgent request,
\* a loop that sees its service call return or throw takes up no queued
\* instruction, also when messages were added after the stop, and exits;
\* every loop that exits leaves thinking = false, with status ERROR and the
\* error's message stored when the call threw; and when service calls
\* return or throw, every started loop eventually exits.
C36_StopsAndExits ==
    /\ [][/\ IsAgentStep("stopRun") => store'.pendingMessages = <<>>
          /\ \A l \in 1..MaxLoops :
                /\ /\ store.abortController = "aborted"
                   /\ loops[l] \in Settled
                   /\ loops'[l] # loops[l]
                   => /\ Exits(l)
                      /\ store'.pendingMessages = store.pendingMessages
                      /\ store'.instructions = store.instructions
                      /\ store'.messages = store.messages
                /\ Exits(l) => ~store'.thinking
                /\ Exits(l) /\ loops[l] = "threw" =>
                      /\ store'.status = "ERROR"
                      /\ store'.errorMsg = "model request failed"
                /\ Exits(l) /\ loops[l] = "threwOther" =>
                      /\ store'.status = "ERROR"
                      /\ store'.errorMsg = "Unknown error in agent loop"
         ]_vars
    /\ \A l \in 1..MaxLoops :
          (loops[l] # "idle") ~> (loops[l] = "idle" /\ ~store.thinking)

\* The run was stopped, a message was queued after the stop, and the loop
\* has exited without taking it up.
C36_Witness ==
    /\ agentCall.op = "afterRunAgent"
    /\ store.abortController = "aborted"
    /\ store.pendingMessages = <<1>>
    /\ store.messages = <<>>
    /\ Running = {}
    /\ ~store.thinking

HEvs == hybridCall.r.events
HIdx(to) == {i \in 1..Len(HEvs) : HEvs[i].to = to}
IsExecute(actions) == hybridCall.op = "execute" /\ hybridCall.action \in actions

\* The call asked for a browser operator and got none.
NoneObtained ==
    \E i \in HIdx("hasBrowser") \cup HIdx("getInstance") : ~HEvs[i].ok

\* C38: an active browser session implies an initialized browser operator,
\* after any sequence of execute, screenshot and cleanup calls, failing or
\* not; open_browser returns ERROR and leaves the session inactive when no
\* browser operator can be obtained; cleanup always leaves the session
\* inactive and the browser operator null.
C38_SessionHasOperator ==
    /\ browserSessionActive => browserOperator # Null
    /\ IsExecute({"open_browser"}) /\ NoneObtained =>
          /\ hybridCall.r.ret = "ERROR"
          /\ ~hybridCall.r.threw
          /\ ~browserSessionActive
    /\ hybridCall.op = "cleanup" =>
          /\ ~browserSessionActive
          /\ browserOperator = Null
          /\ ~hybridCall.r.threw

\* The cleanup of an active session in which the browser operator's own
\* cleanup failed.
C38_Witness ==
    /\ hybridCall.op = "cleanup"
    /\ hybridCall.preActive
    /\ \E i \in HIdx("browser") : ~HEvs[i].ok

\* C39: execute sends an action to the browser operator only while a
\* browser session is active (for navigate and navigate_back, after opening
\* one in the same call); with no active session every action other than
\* the session actions, navigate and navigate_back is executed exactly once
\* by the computer operator; during an active session every action of
\* BROWSER_COMPATIBLE_ACTIONS that fails in the browser operator is then
\* executed by the computer operator and the failure does not reach the
\* caller.
C39_Routing ==
    hybridCall.op = "execute" =>
        /\ \A i \in HIdx("browser") : HEvs[i].active
        /\ /\ ~hybridCall.preActive
           /\ hybridCall.action \notin {"open_browser", "close_browser",
                                        "navigate", "navigate_back"}
           => /\ Cardinality(HIdx("computer")) = 1
              /\ HIdx("browser") = {}
        /\ /\ hybridCall.preActive
           /\ hybridCall.action \in BROWSER_COMPATIBLE_ACTIONS
           /\ \E i \in HIdx("browser") : ~HEvs[i].ok
           => /\ Cardinality(HIdx("computer")) = 1
              /\ hybridCall.r.threw => ~HEvs[Len(HEvs)].ok
                                       /\ HEvs[Len(HEvs)].to = "computer"


\* ------------------------------------------- claims: two calls in flight
BothReturned ==
    \A c \in Callers : callers[c].pc = "done" /\ ~callers[c].threw

\* C31: getOrCreateSessionPage needs no external serialization: when two
\* calls on an instance that has no valid session page interleave at their
\* await points, createPage is called at most once in total, both return
\* the same page, and that page is the one tracked in the end.
C31_NaturallyIdempotent ==
    /\ Cardinality({c \in Callers : callers[c].created}) <= 1
    /\ BothReturned =>
          /\ callers[1].ret = callers[2].ret
          /\ sessionPage = callers[1].ret


====
